---- MODULE Spec2Model ----
(***************************************************************************)
(* Model of ocit2SUMO.py: the state interpretation table, normalisation,   *)
(* the minor-green recheck, clearance insertion, timeline compaction and   *)
(* the phase-list assembler of buildSumoPhasesFromOcit; the signal-group   *)
(* index, the phase state builder, the transition synthesizer, the cycle   *)
(* builder and the continuous-program mode (parseSignalPrograms).          *)
(*                                                                         *)
(* Representation of Python values:                                        *)
(*   str          a sequence of one-letter TLA+ strings  ("rO" = <<"r","O">>)*)
(*   list, tuple  a sequence; Python index k is TLA+ index k+1             *)
(*   dict         a function (a sequence of items where the order of       *)
(*                .items() matters)                                        *)
(* Python indices and ranges are kept 0-based in the definitions.          *)
(***************************************************************************)
EXTENDS Integers, Sequences, FiniteSets, TLC

VARIABLES
    pc,               \* position in buildSumoPhasesFromOcit, or the uncaught exception
    cycle,            \* list of phase IDs (buildCycles)
    majorIndex,       \* dict phaseID -> numeric tag (buildCycles)
    index2groups,     \* dict link index -> list of group IDs (getIndex2Groups)
    minorIndex,       \* options.minorIndex
    yellowDur,        \* dict link index -> yellow duration
    redYellowDur,     \* dict link index -> red-yellow duration
    phases,           \* dict phaseID -> state vector (complex, then a str)
    transitions,      \* items of dict (ID, fromPhase, toPhase) -> list of tick vectors
    timedTransitions, \* items of dict (ID, (fromPhase, toPhase)) -> [(dur, state)]
    phaseProperties,  \* [(dur, state, next, major, majorNext)]
    comments,         \* annotation per tuple: (padding, number, ID)
    sumoIndex,        \* dict phaseID -> index in phaseProperties
    stdout,           \* the corrections printed by recheckGreenMinor
    args,             \* arguments of a direct call of one function
    ret,              \* its result
    ocitfile,         \* the parsed records of options.ocitfile still to be read
    sgIndex,          \* items of dict group ID -> [link index] (parseSignalGroups)
    maxIndex          \* the largest link index (parseSignalGroups)

pipeVars == <<pc, cycle, majorIndex, index2groups, minorIndex, yellowDur, redYellowDur,
              phases, transitions, timedTransitions, phaseProperties, comments,
              sumoIndex, stdout>>
callVars == <<args, ret>>
fileVars == <<ocitfile, sgIndex, maxIndex>>
vars == <<pipeVars, callVars, fileVars>>

----------------------------------------------------------------------------
(* Bounds of the model *)

\* longest transition (ticks) and longest argument vector drawn
MaxLen == 3
\* largest yellow / red-yellow duration drawn
MaxDur == 2
\* largest number of transitions drawn for the assembler
MaxTrans == 2

----------------------------------------------------------------------------
(* Python helpers *)

\* range(a, b)
Range(a, b) == a .. (b - 1)

\* n * c for a one-letter str c
Repeat(c, n) == [k \in 1..n |-> c]

\* the one-letter strings
G == <<"G">>
g == <<"g">>
y == <<"y">>
r == <<"r">>
u == <<"u">>
O == <<"O">>
o == <<"o">>

\* s[i] for a str s: a one-letter str
StrAt(s, i) == <<s[i + 1]>>

\* ''.join(list of str)
RECURSIVE Join(_)
Join(list) == IF list = <<>> THEN <<>> ELSE Head(list) \o Join(Tail(list))

\* the outcome of a call: a returned value, or an uncaught exception
Return(v) == [exc |-> "none", value |-> v]
Raise(e) == [exc |-> e, value |-> <<>>]

----------------------------------------------------------------------------
(* State interpretation: ocit2SUMO.py lines 86-172 *)

SUMOSTATE_COMPLEX ==
    <<"r", "O">> :> <<"r">> @@ <<"O", "r">> :> <<"r">> @@ <<"r", "o">> :> <<"r">> @@
    <<"r", "G">> :> <<"r">> @@ <<"G", "o">> :> <<"g">> @@ <<"g", "o">> :> <<"g">> @@
    <<"g", "O">> :> <<"g">> @@ <<"O", "G">> :> <<"G">> @@ <<"G", "r">> :> <<"G">> @@
    <<"G", "O">> :> <<"G">> @@ <<"y", "G">> :> <<"y">> @@ <<"y", "o">> :> <<"y">> @@
    <<"y", "O">> :> <<"y">> @@ <<"y", "r">> :> <<"r">> @@ <<"u", "G">> :> <<"u">> @@
    <<"u", "o">> :> <<"u">> @@ <<"u", "O">> :> <<"u">> @@ <<"u", "r">> :> <<"r">> @@
    <<"r", "r", "o">> :> <<"r">> @@ <<"r", "r", "O">> :> <<"r">> @@ <<"r", "O", "o">> :> <<"r">> @@
    <<"r", "G", "o">> :> <<"r">> @@ <<"r", "G", "O">> :> <<"r">> @@ <<"r", "O", "O">> :> <<"r">> @@
    <<"r", "o", "O">> :> <<"r">> @@ <<"r", "O", "G">> :> <<"r">> @@ <<"O", "O", "r">> :> <<"r">> @@
    <<"O", "G", "o">> :> <<"g">> @@ <<"O", "G", "O">> :> <<"G">> @@ <<"O", "r", "O">> :> <<"r">> @@
    <<"g", "O", "o">> :> <<"g">> @@ <<"g", "G", "O">> :> <<"G">> @@ <<"G", "o", "o">> :> <<"G">> @@
    <<"G", "o", "O">> :> <<"g">> @@ <<"G", "O", "o">> :> <<"g">> @@ <<"G", "O", "O">> :> <<"g">> @@
    <<"g", "o", "O">> :> <<"g">> @@ <<"G", "o", "G">> :> <<"G">> @@ <<"G", "O", "G">> :> <<"G">> @@
    <<"G", "G", "O">> :> <<"G">> @@ <<"G", "G", "o">> :> <<"g">> @@ <<"G", "r", "O">> :> <<"G">> @@
    <<"r", "G", "G">> :> <<"g">> @@ <<"u", "G", "O">> :> <<"G">> @@ <<"u", "o", "O">> :> <<"u">> @@
    <<"u", "G", "G">> :> <<"u">> @@ <<"y", "O", "G">> :> <<"y">> @@ <<"y", "G", "o">> :> <<"y">> @@
    <<"y", "G", "O">> :> <<"y">> @@ <<"y", "G", "G">> :> <<"y">> @@ <<"O", "g", "o">> :> <<"g">> @@
    <<"O", "g", "O">> :> <<"g">> @@ <<"O", "r", "o">> :> <<"r">> @@ <<"O", "r", "r">> :> <<"r">> @@
    <<"O", "G", "r">> :> <<"G">> @@ <<"G", "r", "r">> :> <<"G">> @@ <<"r", "g", "O">> :> <<"r">> @@
    <<"r", "g", "o">> :> <<"r">> @@ <<"G", "r", "o">> :> <<"G">> @@ <<"O", "r", "G">> :> <<"r">> @@
    <<"u", "O", "G">> :> <<"u">>

interpret_complex_state_returnsLiteral(state) ==
    IF Repeat(state[1], Len(state)) = state
    THEN Return(<<state[1]>>)
    ELSE Return(IF state \in DOMAIN SUMOSTATE_COMPLEX THEN SUMOSTATE_COMPLEX[state]
                ELSE state)

interpret_complex_state(state) ==
    IF Repeat(state[1], Len(state)) = state
    THEN Return(<<state[1]>>)
    ELSE LET singleLetter == IF state \in DOMAIN SUMOSTATE_COMPLEX
                             THEN SUMOSTATE_COMPLEX[state]
                             ELSE state
         IN  IF Len(singleLetter) > 1 THEN Raise("AssertionError")
             ELSE Return(singleLetter)

\* One pass of the loop body of normalizeStates for index i (lines 165-171).
\* The `continue` of line 168 continues the inner loop over the groups, so
\* line 169 always runs and overwrites states[i]; it reads the loop variable
\* `state`, which still holds the complex state.
normalizeIndex(state, i, groups, minor, major) ==
    LET afterGroups == IF \E k \in 1..Len(groups) : groups[k] \in major
                       THEN G ELSE state                  \* lines 165-168
        reduced == interpret_complex_state(Join(state))   \* line 169 overwrites it
    IN  IF reduced.exc # "none" THEN reduced
        ELSE IF reduced.value = G /\ i \in minor THEN Return(g)
        ELSE reduced

\* normalizeStates(states, phaseID, index2groups, minorIndex, majorIndex):
\* `groupsOf` is index2groups, `major` the set of group IDs of majorIndex.
normalizeStates(states, groupsOf, minor, major) ==
    LET one(i) == normalizeIndex(states[i + 1], i,
                                 IF i \in DOMAIN groupsOf THEN groupsOf[i] ELSE <<>>,
                                 minor, major)
    IN  IF \E i \in Range(0, Len(states)) : one(i).exc # "none"
        THEN Raise("AssertionError")
        ELSE Return([k \in 1..Len(states) |-> one(k - 1).value])

----------------------------------------------------------------------------
(* Consistency corrector: recheckGreenMinor, lines 400-417 *)

\* the ticks t of `transition` that show 'G' at `index` (the list `corrected`)
correctedTimes(transition, index) ==
    { t \in Range(0, Len(transition)) : transition[t + 1][index + 1] = G }

\* whether the loop body of line 406 applies to `index`
needsRecheck(beforeStates, afterStates, index) ==
    StrAt(beforeStates, index) = g /\ StrAt(afterStates, index) # G

\* zip(beforeStates, afterStates) stops at the shorter one
zipLen(a, b) == IF Len(a) < Len(b) THEN Len(a) ELSE Len(b)

recheckTransition_towardsMajor(transition, beforeStates, afterStates) ==
    [k \in 1..Len(transition) |->
        [j \in 1..Len(transition[k]) |->
            IF /\ j - 1 < zipLen(beforeStates, afterStates)
               /\ StrAt(beforeStates, j - 1) = g
               /\ StrAt(afterStates, j - 1) = G
               /\ transition[k][j] = G
            THEN g ELSE transition[k][j]]]

\* one transition after the loop of lines 405-414
recheckTransition(transition, beforeStates, afterStates) ==
    [k \in 1..Len(transition) |->
        [j \in 1..Len(transition[k]) |->
            IF /\ j - 1 < zipLen(beforeStates, afterStates)
               /\ needsRecheck(beforeStates, afterStates, j - 1)
               /\ transition[k][j] = G
            THEN g ELSE transition[k][j]]]

\* the lines printed for one transition, in index order (lines 415-417)
RECURSIVE recheckPrinted(_, _, _, _)
recheckPrinted(entry, beforeStates, afterStates, index) ==
    IF index >= zipLen(beforeStates, afterStates) THEN <<>>
    ELSE (IF /\ needsRecheck(beforeStates, afterStates, index)
             /\ correctedTimes(entry.states, index) # {}
          THEN << <<entry.id, index, correctedTimes(entry.states, index)>> >>
          ELSE <<>>)
         \o recheckPrinted(entry, beforeStates, afterStates, index + 1)

----------------------------------------------------------------------------
(* Clearance inserter: addRedYellow, lines 420-449 *)

NoTick == -2

\* forward scan of lines 425-432: the first tick t >= t0 whose state is 'r'
\* while the state before it is 'g' or 'G'; NoTick if the loop ends
RECURSIVE firstRedAfterGreen(_, _, _, _)
firstRedAfterGreen(transition, i, t, stateBefore) ==
    IF t >= Len(transition) THEN NoTick
    ELSE LET newState == transition[t + 1][i + 1]
         IN  IF newState = r /\ stateBefore \in {g, G} THEN t
             ELSE firstRedAfterGreen(transition, i, t + 1, newState)

addYellow_oneShort(transition, i, stateBefore, dur) ==
    LET t == firstRedAfterGreen(transition, i, 0, stateBefore)
    IN  IF t = NoTick THEN Return(transition)
        ELSE [exc |-> IF t + dur > Len(transition) THEN "IndexError" ELSE "none",
              value |-> [k \in 1..Len(transition) |->
                            IF k - 1 \in Range(t, t + dur - 1)
                            THEN [transition[k] EXCEPT ![i + 1] = y]
                            ELSE transition[k]]]

\* lines 425-432 for index i: transition[t2][i] = 'y' for t2 in range(t, t + dur);
\* transition[t2] raises IndexError once t2 reaches len(transition), after the
\* ticks before it have been written
addYellow(transition, i, stateBefore, dur) ==
    LET t == firstRedAfterGreen(transition, i, 0, stateBefore)
    IN  IF t = NoTick THEN Return(transition)
        ELSE [exc |-> IF t + dur > Len(transition) THEN "IndexError" ELSE "none",
              value |-> [k \in 1..Len(transition) |->
                            IF k - 1 \in Range(t, t + dur)
                            THEN [transition[k] EXCEPT ![i + 1] = y]
                            ELSE transition[k]]]

\* backward scan of lines 435-449 with redYellowDur[i] == 1: the first t, going
\* down from t0 to -1, whose state (the from-phase state for t = -1) is 'r'
\* while the state after it is 'g' or 'G'; NoTick if the loop ends
RECURSIVE lastRedBeforeGreen(_, _, _, _, _)
lastRedBeforeGreen(transition, i, t, stateAfter, stateBefore) ==
    IF t < -1 THEN NoTick
    ELSE LET oldState == IF t = -1 THEN stateBefore ELSE transition[t + 1][i + 1]
         IN  IF oldState = r /\ stateAfter \in {g, G} THEN t
             ELSE lastRedBeforeGreen(transition, i, t - 1, oldState, stateBefore)

addRedYellowBack_longOnly(transition, i, stateBefore, stateAfter, dur) ==
    LET t == lastRedBeforeGreen(transition, i, Len(transition) - 1, stateAfter, stateBefore)
    IN  IF dur <= 1 \/ t = NoTick \/ t + 1 >= Len(transition) THEN transition
        ELSE [transition EXCEPT ![t + 2][i + 1] = u]

addRedYellowBack_atRed(transition, i, stateBefore, stateAfter, dur) ==
    LET t == lastRedBeforeGreen(transition, i, Len(transition) - 1, stateAfter, stateBefore)
    IN  IF dur # 1 \/ t = NoTick \/ t < 0 THEN transition
        ELSE [transition EXCEPT ![t + 1][i + 1] = u]

\* lines 434-449 for index i: only redYellowDur[i] == 1 writes (and breaks);
\* transition[t + 1] with t + 1 == len(transition) raises IndexError, which the
\* bare except swallows
addRedYellowBack(transition, i, stateBefore, stateAfter, dur) ==
    LET t == lastRedBeforeGreen(transition, i, Len(transition) - 1, stateAfter, stateBefore)
    IN  IF dur # 1 \/ t = NoTick \/ t + 1 >= Len(transition) THEN transition
        ELSE [transition EXCEPT ![t + 2][i + 1] = u]

\* the body of the loop of line 424 for the indices i, i+1, ..: stops at the
\* first uncaught exception
RECURSIVE addRedYellowFrom(_, _, _, _, _, _)
addRedYellowFrom(transition, i, statesBefore, statesAfter, yDur, ryDur) ==
    IF i >= Len(statesAfter) THEN Return(transition)
    ELSE LET fwd == addYellow(transition, i, StrAt(statesBefore, i), yDur[i])
         IN  IF fwd.exc # "none" THEN fwd
             ELSE addRedYellowFrom(
                      addRedYellowBack(fwd.value, i, StrAt(statesBefore, i),
                                       StrAt(statesAfter, i), ryDur[i]),
                      i + 1, statesBefore, statesAfter, yDur, ryDur)

\* the loop of line 421 over the items k, k+1, .. of `trs`; phs is `phases`
RECURSIVE addRedYellow(_, _, _, _, _)
addRedYellow(trs, k, phs, yDur, ryDur) ==
    IF k > Len(trs) THEN Return(trs)
    ELSE LET e == trs[k]
             res == addRedYellowFrom(e.states, 0, phs[e.fromPhase], phs[e.toPhase],
                                     yDur, ryDur)
             upd == [trs EXCEPT ![k].states = res.value]
         IN  IF res.exc # "none" THEN [exc |-> res.exc, value |-> upd]
             ELSE addRedYellow(upd, k + 1, phs, yDur, ryDur)

----------------------------------------------------------------------------
(* Timeline compactor: compactifyTransitions, lines 458-465 *)

\* the length of the run of items equal to k at the head of list
RECURSIVE runLength(_, _)
runLength(list, k) ==
    IF list = <<>> \/ Head(list) # k THEN 0 ELSE 1 + runLength(Tail(list), k)

\* the items of list that differ from k, in order
RECURSIVE without(_, _)
without(list, k) ==
    IF list = <<>> THEN <<>>
    ELSE (IF Head(list) = k THEN <<>> ELSE <<Head(list)>>) \o without(Tail(list), k)

RECURSIVE groupby_allOccurrences(_)
groupby_allOccurrences(list) ==
    IF list = <<>> THEN <<>>
    ELSE LET rest == without(list, Head(list))
         IN  << <<Head(list), Repeat(Head(list), Len(list) - Len(rest))>> >>
             \o groupby_allOccurrences(rest)

\* itertools.groupby(list) as [(k, list(g))]
RECURSIVE groupby(_)
groupby(list) ==
    IF list = <<>> THEN <<>>
    ELSE LET n == runLength(list, Head(list))
         IN  << <<Head(list), SubSeq(list, 1, n)>> >> \o groupby(SubSeq(list, n + 1, Len(list)))

timedTransitionOf_unitDurations(transition) ==
    LET grouped == groupby(transition)
    IN  [j \in 1..Len(grouped) |-> <<1, grouped[j][1]>>]

\* lines 462-463
timedTransitionOf(transition) ==
    LET grouped == groupby(transition)
    IN  [j \in 1..Len(grouped) |-> <<Len(grouped[j][2]), grouped[j][1]>>]

compactifyTransitions(trs) ==
    [k \in 1..Len(trs) |->
        [key |-> <<trs[k].id, <<trs[k].fromPhase, trs[k].toPhase>>>>,
         timedTransition |-> timedTransitionOf(trs[k].states)]]

----------------------------------------------------------------------------
(* Phase-list assembler: generateSumoPhases and appendTransition, lines 468-507 *)

\* options.defaultMinDur (--min-duration)
DefaultMinDur == 5

\* Dict keys are compared with Python's ==; the keys in play are strs and
\* tuples, tagged here with their type.
Str(s) == [type |-> "str", v |-> s]
Tuple(t) == [type |-> "tuple", v |-> t]

\* a == b for Python strs and tuples: values of different types are unequal
RECURSIVE PyEq(_, _)
PyEq(a, b) ==
    /\ a.type = b.type
    /\ IF a.type = "str" THEN a.v = b.v
       ELSE /\ Len(a.v) = Len(b.v)
            /\ \A k \in 1..Len(a.v) : PyEq(a.v[k], b.v[k])

\* the key (transitionID, fromTo) of compactifyTransitions (line 464)
timedKey(entry) ==
    Tuple(<<Str(entry.key[1]), Tuple(<<Str(entry.key[2][1]), Str(entry.key[2][2])>>)>>)

\* the items of timedTransitions whose key equals `key` (`key in timedTransitions`)
itemsWithKey(timed, key) == { j \in 1..Len(timed) : PyEq(timedKey(timed[j]), key) }

appendTransition_everyTupleNext(acc, timedTransition, transitionID, major, fromTo) ==
    LET n == Len(timedTransition)
        nextPhase == IF fromTo[2] \in DOMAIN acc.sumoIndex
                     THEN acc.sumoIndex[fromTo[2]] ELSE -1
    IN  [acc EXCEPT
            !.phaseProperties = @ \o
                [i \in 1..n |-> <<timedTransition[i][1], Join(timedTransition[i][2]),
                                  nextPhase, major[fromTo[1]], major[fromTo[2]]>>],
            !.comments = @ \o
                [i \in 1..n |-> <<IF nextPhase = -1 THEN 10 ELSE 1,
                                  acc.numPhases + i - 1, transitionID>>],
            !.numPhases = @ + n]

\* appendTransition: acc holds phaseProperties, comments, sumoIndex, numPhases;
\* iteration i (0-based) of the loop of line 498 appends the tuple i
appendTransition(acc, timedTransition, transitionID, major, fromTo) ==
    LET n == Len(timedTransition)
        \* lines 499-502: sumoIndex[toPhase] raises KeyError for an unknown phase
        nextPhase(i) == IF i = n - 1
                        THEN (IF fromTo[2] \in DOMAIN acc.sumoIndex
                              THEN acc.sumoIndex[fromTo[2]] ELSE -1)
                        ELSE -1
    IN  [acc EXCEPT
            !.phaseProperties = @ \o
                [i \in 1..n |-> <<timedTransition[i][1], Join(timedTransition[i][2]),
                                  nextPhase(i - 1), major[fromTo[1]], major[fromTo[2]]>>],
            !.comments = @ \o
                [i \in 1..n |-> <<IF nextPhase(i - 1) = -1 THEN 10 ELSE 1,
                                  acc.numPhases + i - 1, transitionID>>],
            !.numPhases = @ + n]

\* the loop of lines 475-485 from position phaseIndex on
RECURSIVE walkCycle(_, _, _, _, _, _)
walkCycle(acc, cyc, phaseIndex, major, phs, timed) ==
    IF acc.exc # "none" \/ phaseIndex >= Len(cyc) THEN acc
    ELSE LET phaseID == cyc[phaseIndex + 1]
             emitted == [acc EXCEPT
                 !.phaseProperties = Append(@, <<DefaultMinDur, phs[phaseID], -1,
                                                 major[phaseID], 0>>),
                 !.comments = Append(@, <<10, acc.numPhases, phaseID>>),
                 !.sumoIndex = (phaseID :> acc.numPhases) @@ @,
                 !.numPhases = @ + 1]
             \* line 480: a tuple of two phase IDs
             fromTo == Tuple(<<Str(phaseID),
                               Str(cyc[((phaseIndex + 1) % Len(cyc)) + 1])>>)
             found == itemsWithKey(timed, fromTo)
             \* line 482 unpacks the dict value, a list of (dur, state) pairs, into
             \* two names: ValueError unless it has two items; with two items line
             \* 498 then unpacks the numbers of a (dur, state) pair: TypeError
             value == timed[CHOOSE j \in found : TRUE].timedTransition
             inlined == [emitted EXCEPT
                 !.exc = IF Len(value) # 2 THEN "ValueError" ELSE "TypeError"]
         IN  walkCycle(IF found # {} THEN inlined ELSE emitted,
                       cyc, phaseIndex + 1, major, phs, timed)

\* the loop of lines 486-490 over the items k, k+1, .. of timedTransitions
RECURSIVE appendUnused(_, _, _, _)
appendUnused(acc, timed, k, major) ==
    IF acc.exc # "none" \/ k > Len(timed) THEN acc
    ELSE LET fromTo == timed[k].key[2]
             used == \E x \in acc.usedTransitions :
                        PyEq(x, Tuple(<<Str(fromTo[1]), Str(fromTo[2])>>))
         IN  appendUnused(IF used THEN acc
                          ELSE appendTransition(acc, timed[k].timedTransition,
                                                timed[k].key[1], major, fromTo),
                          timed, k + 1, major)

generateSumoPhases(cyc, major, phs, timed) ==
    appendUnused(
        walkCycle([exc |-> "none", phaseProperties |-> <<>>, comments |-> <<>>,
                   usedTransitions |-> {}, sumoIndex |-> [x \in {} |-> 0],
                   numPhases |-> 0],
                  cyc, 0, major, phs, timed),
        timed, 1, major)

----------------------------------------------------------------------------
(* buildSumoPhasesFromOcit, lines 686-709: one action per call *)

\* lines 687-693: normalizeStates on every phase and on every tick of every
\* transition, with the default majorIndex=[]
NormalizePhasesAndTransitions ==
    /\ pc = "parsed"
    /\ LET nPhase(p) == normalizeStates(phases[p], index2groups, minorIndex, {})
           nTick(k, t) == normalizeStates(transitions[k].states[t], index2groups,
                                          minorIndex, {})
           failed == \/ \E p \in DOMAIN phases : nPhase(p).exc # "none"
                     \/ \E k \in 1..Len(transitions) :
                            \E t \in 1..Len(transitions[k].states) :
                                nTick(k, t).exc # "none"
       IN  IF failed
           THEN /\ pc' = "AssertionError"
                /\ UNCHANGED <<phases, transitions>>
           ELSE /\ pc' = "normalized"
                /\ phases' = [p \in DOMAIN phases |-> Join(nPhase(p).value)]
                /\ transitions' = [k \in 1..Len(transitions) |->
                       [transitions[k] EXCEPT !.states =
                           [t \in 1..Len(transitions[k].states) |-> nTick(k, t).value]]]
    /\ UNCHANGED <<cycle, majorIndex, index2groups, minorIndex, yellowDur, redYellowDur,
                   timedTransitions, phaseProperties, comments, sumoIndex, stdout>>
    /\ UNCHANGED <<callVars, fileVars>>

\* line 698
RecheckGreenMinor ==
    /\ pc = "normalized"
    /\ pc' = "rechecked"
    /\ transitions' = [k \in 1..Len(transitions) |->
           [transitions[k] EXCEPT !.states =
               recheckTransition(@, phases[transitions[k].fromPhase],
                                 phases[transitions[k].toPhase])]]
    /\ LET printed(k) == recheckPrinted(transitions[k], phases[transitions[k].fromPhase],
                                        phases[transitions[k].toPhase], 0)
           all[k \in 0..Len(transitions)] ==
               IF k = 0 THEN <<>> ELSE all[k - 1] \o printed(k)
       IN  stdout' = stdout \o all[Len(transitions)]
    /\ UNCHANGED <<cycle, majorIndex, index2groups, minorIndex, yellowDur, redYellowDur,
                   phases, timedTransitions, phaseProperties, comments, sumoIndex>>
    /\ UNCHANGED <<callVars, fileVars>>

\* line 701
AddRedYellow ==
    /\ pc = "rechecked"
    /\ LET res == addRedYellow(transitions, 1, phases, yellowDur, redYellowDur)
       IN  /\ pc' = IF res.exc # "none" THEN res.exc ELSE "cleared"
           /\ transitions' = res.value
    /\ UNCHANGED <<cycle, majorIndex, index2groups, minorIndex, yellowDur, redYellowDur,
                   phases, timedTransitions, phaseProperties, comments, sumoIndex, stdout>>
    /\ UNCHANGED <<callVars, fileVars>>

\* line 704
CompactifyTransitions ==
    /\ pc = "cleared"
    /\ pc' = "compacted"
    /\ timedTransitions' = compactifyTransitions(transitions)
    /\ UNCHANGED <<cycle, majorIndex, index2groups, minorIndex, yellowDur, redYellowDur,
                   phases, transitions, phaseProperties, comments, sumoIndex, stdout>>
    /\ UNCHANGED <<callVars, fileVars>>

\* lines 707-708
GenerateSumoPhases ==
    /\ pc = "compacted"
    /\ LET res == generateSumoPhases(cycle, majorIndex, phases, timedTransitions)
       IN  /\ pc' = IF res.exc # "none" THEN res.exc ELSE "generated"
           /\ phaseProperties' = res.phaseProperties
           /\ comments' = res.comments
           /\ sumoIndex' = res.sumoIndex
    /\ UNCHANGED <<cycle, majorIndex, index2groups, minorIndex, yellowDur, redYellowDur,
                   phases, transitions, timedTransitions, stdout>>
    /\ UNCHANGED <<callVars, fileVars>>

Next ==
    \/ NormalizePhasesAndTransitions
    \/ RecheckGreenMinor
    \/ AddRedYellow
    \/ CompactifyTransitions
    \/ GenerateSumoPhases

----------------------------------------------------------------------------
(* Signal-group index model: isBlinker, getGroupPriority, getIndex2Groups,  *)
(* lines 174-175 and 283-296.  A group ID is a str; sgIndex is the list of  *)
(* the items of the dict group -> [link index], in insertion order.         *)

\* sub in s, for two strs
Contains(s, sub) ==
    \E k \in 0..(Len(s) - Len(sub)) : SubSeq(s, k + 1, k + Len(sub)) = sub

isBlinker(groupID) ==
    \/ Contains(groupID, <<"B", "L">>)
    \/ Contains(groupID, <<"g", "e">>)
    \/ Contains(groupID, <<"g", "n">>)
    \/ Contains(groupID, <<"H">>)

getGroupPriority_letterFirst(groupID) ==
    IF Contains(groupID, <<"R">>) \/ Contains(groupID, <<"L">>) THEN 0
    ELSE IF isBlinker(groupID) THEN 2
    ELSE 1

getGroupPriority(groupID) ==
    IF isBlinker(groupID) THEN 2
    ELSE IF Contains(groupID, <<"R">>) \/ Contains(groupID, <<"L">>) THEN 0
    ELSE 1

\* sorted(keys, key=getGroupPriority): a stable sort, each key is inserted
\* behind the keys of lower or equal priority that precede it
RECURSIVE sortedByPriority(_)
sortedByPriority(keys) ==
    IF keys = <<>> THEN <<>>
    ELSE LET rest == sortedByPriority(SubSeq(keys, 1, Len(keys) - 1))
             x == keys[Len(keys)]
             n == Cardinality({ k \in 1..Len(rest) :
                                  getGroupPriority(rest[k]) <= getGroupPriority(x) })
         IN  SubSeq(rest, 1, n) \o <<x>> \o SubSeq(rest, n + 1, Len(rest))

\* sgIndex.keys() and sgIndex[group] (a defaultdict(list))
sgKeys(sgIdx) == [k \in 1..Len(sgIdx) |-> sgIdx[k].group]
sgGet(sgIdx, group) ==
    IF \E k \in 1..Len(sgIdx) : sgIdx[k].group = group
    THEN sgIdx[CHOOSE k \in 1..Len(sgIdx) : sgIdx[k].group = group].indices
    ELSE <<>>

\* index2groups[i] of a defaultdict(list)
groupsAt(i2g, i) == IF i \in DOMAIN i2g THEN i2g[i] ELSE <<>>

\* lines 294-295 for one group: index2groups[i].append(group) for i in indices
RECURSIVE appendGroup(_, _, _)
appendGroup(i2g, group, indices) ==
    IF indices = <<>> THEN i2g
    ELSE LET i == Head(indices)
         IN  appendGroup([j \in DOMAIN i2g \cup {i} |->
                             IF j = i THEN groupsAt(i2g, i) \o <<group>> ELSE i2g[j]],
                         group, Tail(indices))

RECURSIVE appendGroups(_, _, _)
appendGroups(i2g, groups, sgIdx) ==
    IF groups = <<>> THEN i2g
    ELSE appendGroups(appendGroup(i2g, Head(groups), sgGet(sgIdx, Head(groups))),
                      Tail(groups), sgIdx)

getIndex2Groups(sgIdx) ==
    appendGroups([j \in {} |-> <<>>], sortedByPriority(sgKeys(sgIdx)), sgIdx)

----------------------------------------------------------------------------
(* Phase state builder and transition synthesizer: parsePhaseStates,        *)
(* reduceComplexState, parseTransitions, lines 298-398.  The records of the *)
(* file are: a phase [ID, elements: [(group, signal)]], a transition [ID,   *)
(* duration, hasFrom, fromPhase, toPhase, elements: [(group, hasInitial,    *)
(* initial, times: [(time, signal)])]].                                     *)

SIGNALSTATE_SUMOSTATE ==
    [signal \in {"gruen", "gelb", "rot", "rotgelb", "dunkel", "gelbblk",
                 "00", "08", "03", "30", "0F", "0C"} |->
        CASE signal = "gruen" -> G
          [] signal = "gelb" -> y
          [] signal = "rot" -> r
          [] signal = "rotgelb" -> u
          [] signal = "dunkel" -> O
          [] signal = "gelbblk" -> o
          [] signal = "00" -> o
          [] signal = "08" -> o
          [] signal = "03" -> r
          [] signal = "30" -> G
          [] signal = "0F" -> u
          [] signal = "0C" -> y]

\* list.index(x)
indexOf(list, x) ==
    (CHOOSE k \in 1..Len(list) : list[k] = x /\ \A j \in 1..(k - 1) : list[j] # x) - 1

\* sgIndex after the read sgIndex[group] of a defaultdict(list): a missing key
\* is inserted with an empty list
sgTouch(sgIdx, group) ==
    IF \E k \in 1..Len(sgIdx) : sgIdx[k].group = group THEN sgIdx
    ELSE Append(sgIdx, [group |-> group, indices |-> <<>>])

RECURSIVE sgTouchAll(_, _)
sgTouchAll(sgIdx, groups) ==
    IF groups = <<>> THEN sgIdx
    ELSE sgTouchAll(sgTouch(sgIdx, Head(groups)), Tail(groups))

\* for index in sgIndex[groupID]:
\*     stateList[index][index2groups[index].index(groupID)] = groupState
writeGroup(stateList, groupID, sgIdx, i2g, groupState) ==
    LET owned == { sgGet(sgIdx, groupID)[k] : k \in 1..Len(sgGet(sgIdx, groupID)) }
    IN  [i \in 1..Len(stateList) |->
            IF (i - 1) \in owned
            THEN [stateList[i] EXCEPT ![indexOf(groupsAt(i2g, i - 1), groupID) + 1] =
                                         groupState]
            ELSE stateList[i]]

\* lines 311-316: the elements of one phase, in order
RECURSIVE writeElements(_, _, _, _)
writeElements(stateList, elements, sgIdx, i2g) ==
    IF elements = <<>> THEN stateList
    ELSE writeElements(writeGroup(stateList, Head(elements).group, sgIdx, i2g,
                                  SIGNALSTATE_SUMOSTATE[Head(elements).signal]),
                       Tail(elements), sgIdx, i2g)

defaultState_oneShort(i2g, maxIdx) ==
    [i \in 1..maxIdx |->
        Repeat(O, IF Len(groupsAt(i2g, i - 1)) > 1 THEN Len(groupsAt(i2g, i - 1)) ELSE 1)]

\* line 300
defaultState(i2g, maxIdx) ==
    [i \in 1..(maxIdx + 1) |->
        Repeat(O, IF Len(groupsAt(i2g, i - 1)) > 1 THEN Len(groupsAt(i2g, i - 1)) ELSE 1)]

\* the set of the items of a list
asSet(list) == { list[k] : k \in 1..Len(list) }

\* parsePhaseStates: the dict phases (a phase listed twice keeps its last
\* record) and sgIndex after the reads of line 314
parsePhaseStates(phaseList, cyc, sgIdx, maxIdx) ==
    LET i2g == getIndex2Groups(sgIdx)
        listed == { k \in 1..Len(phaseList) : phaseList[k].ID \in asSet(cyc) }
        last(ID) == CHOOSE k \in listed :
                        /\ phaseList[k].ID = ID
                        /\ \A j \in listed : phaseList[j].ID = ID => j <= k
        read[k \in 0..Len(phaseList)] ==
            IF k = 0 THEN sgIdx
            ELSE IF k \in listed
                 THEN sgTouchAll(read[k - 1],
                                 [e \in 1..Len(phaseList[k].elements) |->
                                     phaseList[k].elements[e].group])
                 ELSE read[k - 1]
    IN  [phases |-> [ID \in { phaseList[k].ID : k \in listed } |->
                        writeElements(defaultState(i2g, maxIdx),
                                      phaseList[last(ID)].elements, sgIdx, i2g)],
         sgIndex |-> read[Len(phaseList)]]

\* lines 326-340 of reduceComplexState for one link index
reduceIndex(complexState, groups) ==
    LET singleLetter == interpret_complex_state(Join(complexState))
        interprets == \E k \in 1..Len(groups) : ~isBlinker(groups[k])
    IN  IF interprets /\ singleLetter.exc # "none" THEN Raise("AssertionError")
        ELSE IF groups = <<>> THEN Return(<<O>>)
        ELSE Return([k \in 1..Len(groups) |->
                        IF /\ ~isBlinker(groups[k])
                           /\ complexState[k] = G
                           /\ singleLetter.value = g
                        THEN g
                        ELSE complexState[k]])

reduceComplexState(i2g, phs, fromPhase) ==
    LET one(i) == reduceIndex(phs[fromPhase][i + 1], groupsAt(i2g, i))
    IN  IF \E i \in Range(0, Len(phs[fromPhase])) : one(i).exc # "none"
        THEN Raise("AssertionError")
        ELSE Return([k \in 1..Len(phs[fromPhase]) |-> one(k - 1).value])

\* transitionStates[time][index][slot] = letter, for time in range(from, duration)
\* and the indices and slot of the group (lines 380-383 and 389-392)
writeTicks(transitionStates, from, groupID, sgIdx, i2g, letter) ==
    [t \in 1..Len(transitionStates) |->
        IF t - 1 >= from
        THEN writeGroup(transitionStates[t], groupID, sgIdx, i2g, letter)
        ELSE transitionStates[t]]

RECURSIVE writeTimes_firstWins(_, _, _, _, _)
writeTimes_firstWins(transitionStates, times, groupID, sgIdx, i2g) ==
    IF times = <<>> THEN transitionStates
    ELSE writeTicks(writeTimes_firstWins(transitionStates, Tail(times), groupID, sgIdx, i2g),
                    Head(times).time, groupID, sgIdx, i2g,
                    SIGNALSTATE_SUMOSTATE[Head(times).signal])

\* lines 384-392: the switch times of one element, in declared order
RECURSIVE writeTimes(_, _, _, _, _)
writeTimes(transitionStates, times, groupID, sgIdx, i2g) ==
    IF times = <<>> THEN transitionStates
    ELSE writeTimes(writeTicks(transitionStates, Head(times).time, groupID, sgIdx, i2g,
                               SIGNALSTATE_SUMOSTATE[Head(times).signal]),
                    Tail(times), groupID, sgIdx, i2g)

\* lines 372-377: the initial letter of an element.  Without a start picture
\* and without an index the variable keeps an earlier value, which is then
\* written nowhere.
initialOf(sg, sgIdx, phs, fromPhase) ==
    IF sg.hasInitial THEN SIGNALSTATE_SUMOSTATE[sg.initial]
    ELSE IF Len(sgGet(sgIdx, sg.group)) > 0
         THEN phs[fromPhase][sgGet(sgIdx, sg.group)[1] + 1][1]
         ELSE <<"?">>

\* lines 370-392: the switching elements of one transition, in order
RECURSIVE writeSwitching(_, _, _, _, _, _)
writeSwitching(transitionStates, elements, sgIdx, i2g, phs, fromPhase) ==
    IF elements = <<>> THEN transitionStates
    ELSE LET sg == Head(elements)
             seeded == writeTicks(transitionStates, 0, sg.group, sgIdx, i2g,
                                  initialOf(sg, sgIdx, phs, fromPhase))
         IN  writeSwitching(writeTimes(seeded, sg.times, sg.group, sgIdx, i2g),
                            Tail(elements), sgIdx, i2g, phs, fromPhase)

\* transitions[(ID, fromPhase, toPhase)] = transitionStates (line 393)
setTransition(trs, entry) ==
    LET same == { k \in 1..Len(trs) : /\ trs[k].id = entry.id
                                       /\ trs[k].fromPhase = entry.fromPhase
                                       /\ trs[k].toPhase = entry.toPhase }
    IN  IF same = {} THEN Append(trs, entry)
        ELSE [k \in 1..Len(trs) |-> IF k \in same THEN entry ELSE trs[k]]

\* parseTransitions from transition k of the list on; `acc` holds the dict
\* built so far and sgIndex after the reads of lines 375 and 381
RECURSIVE parseTransitionsFrom(_, _, _, _, _)
parseTransitionsFrom(acc, transitionList, k, i2g, phs) ==
    IF k > Len(transitionList) THEN acc
    ELSE LET transition == transitionList[k]
             duration == IF transition.duration > 1 THEN transition.duration ELSE 1
             initialState == reduceComplexState(i2g, phs, transition.fromPhase)
             read == sgTouchAll(acc.sgIndex,
                                [e \in 1..Len(transition.elements) |->
                                    transition.elements[e].group])
         IN  IF \/ ~transition.hasFrom
                \/ transition.fromPhase \notin DOMAIN phs
                \/ transition.toPhase \notin DOMAIN phs
             THEN parseTransitionsFrom(acc, transitionList, k + 1, i2g, phs)
             ELSE IF initialState.exc # "none"
             THEN [acc EXCEPT !.exc = initialState.exc]
             ELSE parseTransitionsFrom(
                      [exc |-> "none",
                       sgIndex |-> read,
                       transitions |-> setTransition(acc.transitions,
                           [id |-> transition.ID,
                            fromPhase |-> transition.fromPhase,
                            toPhase |-> transition.toPhase,
                            states |-> writeSwitching(
                                [t \in 1..duration |-> initialState.value],
                                transition.elements, acc.sgIndex,
                                i2g, phs, transition.fromPhase)])],
                      transitionList, k + 1, i2g, phs)

parseTransitions(transitionList, sgIdx, phs) ==
    parseTransitionsFrom([exc |-> "none", sgIndex |-> sgIdx, transitions |-> <<>>],
                         transitionList, 1, getIndex2Groups(sgIdx), phs)

----------------------------------------------------------------------------
(* buildSumoPhasesFromOcit, lines 667-684: one action per call *)

\* line 667
GetIndex2Groups ==
    /\ pc = "groups"
    /\ pc' = "indexed"
    /\ index2groups' = getIndex2Groups(sgIndex)
    /\ UNCHANGED <<cycle, majorIndex, minorIndex, yellowDur, redYellowDur, phases,
                   transitions, timedTransitions, phaseProperties, comments, sumoIndex,
                   stdout>>
    /\ UNCHANGED <<callVars, fileVars>>

\* line 677
ParsePhaseStates ==
    /\ pc = "indexed"
    /\ pc' = "phases"
    /\ LET res == parsePhaseStates(ocitfile.phaseList, cycle, sgIndex, maxIndex)
       IN  /\ phases' = res.phases
           /\ sgIndex' = res.sgIndex
    /\ UNCHANGED <<cycle, majorIndex, index2groups, minorIndex, yellowDur, redYellowDur,
                   transitions, timedTransitions, phaseProperties, comments, sumoIndex,
                   stdout>>
    /\ UNCHANGED <<callVars, ocitfile, maxIndex>>

\* line 684
ParseTransitions ==
    /\ pc = "phases"
    /\ LET res == parseTransitions(ocitfile.transitionList, sgIndex, phases)
       IN  /\ pc' = IF res.exc # "none" THEN res.exc ELSE "parsed"
           /\ transitions' = res.transitions
           /\ sgIndex' = res.sgIndex
    /\ UNCHANGED <<cycle, majorIndex, index2groups, minorIndex, yellowDur, redYellowDur,
                   phases, timedTransitions, phaseProperties, comments, sumoIndex,
                   stdout>>
    /\ UNCHANGED <<callVars, ocitfile, maxIndex>>

\* lines 667-709
NextOcit ==
    \/ GetIndex2Groups
    \/ ParsePhaseStates
    \/ ParseTransitions
    \/ NormalizePhasesAndTransitions
    \/ RecheckGreenMinor
    \/ AddRedYellow
    \/ CompactifyTransitions
    \/ GenerateSumoPhases

----------------------------------------------------------------------------
(* Cycle builder: RENUM and buildCycles, lines 177-178 and 535-547.  A      *)
(* phase ID is a str here, its numeric tag the first run of digits in it.   *)

DigitChars == <<"0", "1", "2", "3", "4", "5", "6", "7", "8", "9">>
isDigit(c) == \E k \in 1..10 : DigitChars[k] = c

\* int(s) for a str of digits
RECURSIVE int(_)
int(s) ==
    IF s = <<>> THEN 0
    ELSE 10 * int(SubSeq(s, 1, Len(s) - 1))
         + (CHOOSE k \in 1..10 : DigitChars[k] = s[Len(s)]) - 1

\* RENUM.search(p).groups()[0]: the first, longest run of digits of p;
\* search returns None for a str without a digit
RENUM(p) ==
    IF \A k \in 1..Len(p) : ~isDigit(p[k]) THEN Raise("AttributeError")
    ELSE LET first == CHOOSE k \in 1..Len(p) :
                          isDigit(p[k]) /\ \A j \in 1..(k - 1) : ~isDigit(p[j])
             last == CHOOSE k \in first..Len(p) :
                         /\ \A j \in first..k : isDigit(p[j])
                         /\ k = Len(p) \/ ~isDigit(p[k + 1])
         IN  Return(SubSeq(p, first, last))

\* the loop of lines 539-546 from phase k on: the cycles yielded, the last
\* one by line 547
RECURSIVE buildCyclesFrom(_, _, _, _, _)
buildCyclesFrom(phs, k, major, ignorePhases, cyc) ==
    IF k > Len(phs) THEN << cyc >>
    ELSE LET p == phs[k]
         IN  IF major[p] \in ignorePhases
             THEN buildCyclesFrom(phs, k + 1, major, ignorePhases, cyc)
             ELSE IF major[p] % 10 = 1 /\ cyc # <<>>
             THEN << cyc >> \o buildCyclesFrom(phs, k + 1, major, ignorePhases, <<p>>)
             ELSE buildCyclesFrom(phs, k + 1, major, ignorePhases, Append(cyc, p))

\* list(buildCycles(phases, ignorePhases)): the cycles and majorIndex
buildCycles(phs, ignorePhases) ==
    IF \E k \in 1..Len(phs) : RENUM(phs[k]).exc # "none" THEN Raise("AttributeError")
    ELSE LET major == [p \in asSet(phs) |-> int(RENUM(p).value)]
         IN  Return([cycles |-> buildCyclesFrom(phs, 1, major, ignorePhases, <<>>),
                     majorIndex |-> major])

\* line 653: for cycle, majorIndex in buildCycles(...)
CallBuildCycles ==
    /\ ret.fn = "none"
    /\ args.fn = "buildCycles"
    /\ ret' = [fn |-> args.fn] @@ buildCycles(args.phases, args.ignorePhases)
    /\ UNCHANGED <<args, pipeVars, fileVars>>

----------------------------------------------------------------------------
(* Continuous-program mode: parseSignalPrograms, lines 550-646, for one     *)
(* program [cycleTime, rows: [(group, switches: [(time, signal)], hasPerm,  *)
(* permState)]].  sigProgram[i][sgIdx] is a list of letters; the clearance  *)
(* durations are a dict over link indices and group IDs alike.              *)

\* sigProgram[i][sgIdx].append(c) for the ticks i
cellAppend(sigProgram, ticks, sgIdx, c) ==
    [i \in 1..Len(sigProgram) |->
        IF (i - 1) \in ticks
        THEN [sigProgram[i] EXCEPT ![sgIdx + 1] = Append(@, c)]
        ELSE sigProgram[i]]

\* sigProgram[i][sgIdx] = [c] for the ticks i
cellSet(sigProgram, ticks, sgIdx, c) ==
    [i \in 1..Len(sigProgram) |->
        IF (i - 1) \in ticks
        THEN [sigProgram[i] EXCEPT ![sgIdx + 1] = <<c>>]
        ELSE sigProgram[i]]

\* lines 610-613 and 618-619: the tick written for the loop value i; the
\* yellow loop has the second test only, where i is never negative
wrapTick(i, cycleTime) ==
    LET up == IF i < 0 THEN i + cycleTime ELSE i
    IN  IF up >= cycleTime THEN up % cycleTime ELSE up

\* the clearance window of a switch at time t: lines 609 and 617
clearanceWindow(t, onset, dur) == IF onset THEN Range(t - dur, t) ELSE Range(t, t + dur)

\* lines 608 and 616
clearanceDur(durs, sgIdx, sgID) ==
    IF durs.index[sgIdx] < durs.group[sgID] THEN durs.index[sgIdx] ELSE durs.group[sgID]

\* lines 600-620 for the link indices `sgIndices`, in order: `dur` is left at
\* the value of the last index
RECURSIVE switchIndices(_, _, _, _, _, _, _, _)
switchIndices(acc, sgIndices, sgID, t, state, stdClosed, redYellow, yellow) ==
    IF sgIndices = <<>> \/ acc.exc # "none" THEN acc
    ELSE LET sgIdx == Head(sgIndices)
             onset == state = G
             assign == IF onset THEN stdClosed ELSE G
             dur == clearanceDur(IF onset THEN redYellow ELSE yellow, sgIdx, sgID)
             cycleTime == Len(acc.sigProgram)
             filled == cellAppend(acc.sigProgram, Range(acc.start_index, t), sgIdx, assign)
             ticks == { wrapTick(i, cycleTime) : i \in clearanceWindow(t, onset, dur) }
         IN  IF \/ acc.start_index < t /\ t > cycleTime
                \/ \E i \in ticks : i < -cycleTime \/ i >= cycleTime
             THEN [acc EXCEPT !.exc = "IndexError"]
             ELSE switchIndices(
                      [acc EXCEPT !.sigProgram =
                                      cellSet(filled, { i % cycleTime : i \in ticks }, sgIdx,
                                              IF onset THEN u ELSE y),
                                  !.dur = dur],
                      Tail(sgIndices), sgID, t, state, stdClosed, redYellow, yellow)

\* lines 624-626
RECURSIVE closeIndices(_, _, _, _)
closeIndices(sigProgram, sgIndices, start_index, state) ==
    IF sgIndices = <<>> THEN sigProgram
    ELSE closeIndices(cellAppend(sigProgram, Range(start_index, Len(sigProgram)),
                                 Head(sgIndices), state),
                      Tail(sgIndices), start_index, state)

\* lines 590-626 from switch k on
RECURSIVE switchesFrom(_, _, _, _, _, _, _, _)
switchesFrom(acc, switches, k, sgIndices, sgID, stdClosed, redYellow, yellow) ==
    IF k > Len(switches) \/ acc.exc # "none" THEN acc
    ELSE LET t == switches[k].time
             state == SIGNALSTATE_SUMOSTATE[switches[k].signal]
             done == switchIndices(acc, sgIndices, sgID, t, state, stdClosed,
                                   redYellow, yellow)
             start == IF state # G THEN t + done.dur ELSE t
             closed == IF k >= Len(switches)
                       THEN closeIndices(done.sigProgram, sgIndices, start, state)
                       ELSE done.sigProgram
         IN  IF done.exc # "none" THEN done
             ELSE switchesFrom([done EXCEPT !.sigProgram = closed, !.start_index = start],
                               switches, k + 1, sgIndices, sgID, stdClosed, redYellow,
                               yellow)

\* lines 575-576: the last signal of the switches that is not 'G', else 'r'
RECURSIVE stdClosedOf(_, _)
stdClosedOf(switches, k) ==
    IF k = 0 THEN r
    ELSE IF SIGNALSTATE_SUMOSTATE[switches[k].signal] # G
         THEN SIGNALSTATE_SUMOSTATE[switches[k].signal]
         ELSE stdClosedOf(switches, k - 1)

\* lines 586-588
RECURSIVE permIndices(_, _, _)
permIndices(sigProgram, sgIndices, permState) ==
    IF sgIndices = <<>> THEN sigProgram
    ELSE permIndices(cellAppend(sigProgram, Range(0, Len(sigProgram)), Head(sgIndices),
                                permState),
                     Tail(sgIndices), permState)

\* lines 563-626 from row k on; `dur` is a local of the function and keeps
\* its value from row to row
RECURSIVE programRows(_, _, _, _, _, _)
programRows(acc, rows, k, sgIdx, redYellow, yellow) ==
    IF k > Len(rows) \/ acc.exc # "none" THEN acc
    ELSE LET element == rows[k]
             sgIndices == sgGet(sgIdx, element.group)
         IN  IF element.group \notin asSet(sgKeys(sgIdx))
             THEN programRows(acc, rows, k + 1, sgIdx, redYellow, yellow)
             ELSE IF element.switches # <<>>
             THEN programRows(
                      switchesFrom([acc EXCEPT !.start_index = 0], element.switches, 1,
                                   sgIndices, element.group,
                                   stdClosedOf(element.switches, Len(element.switches)),
                                   redYellow, yellow),
                      rows, k + 1, sgIdx, redYellow, yellow)
             ELSE IF element.hasPerm
             THEN programRows(
                      [acc EXCEPT !.sigProgram =
                          permIndices(@, sgIndices, SIGNALSTATE_SUMOSTATE[element.permState])],
                      rows, k + 1, sgIdx, redYellow, yellow)
             ELSE [acc EXCEPT !.exc = "Exception"]

timedProgramOf_unitDurations(sigProgram, noGrouping) ==
    IF ~noGrouping
    THEN LET grouped == groupby(sigProgram)
         IN  [j \in 1..Len(grouped) |-> <<1, grouped[j][1]>>]
    ELSE [j \in 1..Len(sigProgram) |-> <<1, sigProgram[j]>>]

\* lines 627-631
timedProgramOf(sigProgram, noGrouping) ==
    IF ~noGrouping
    THEN LET grouped == groupby(sigProgram)
         IN  [j \in 1..Len(grouped) |-> <<Len(grouped[j][2]), grouped[j][1]>>]
    ELSE [j \in 1..Len(sigProgram) |-> <<1, sigProgram[j]>>]

\* line 552
maxSgIndexOf(sgIdx) ==
    LET all == UNION { asSet(sgIdx[k].indices) : k \in 1..Len(sgIdx) }
    IN  CHOOSE m \in all : \A i \in all : i <= m

\* the program built by parseSignalPrograms for one program record; a program
\* without rows is not emitted (no pairs)
parseSignalPrograms(program, sgIdx, redYellow, yellow, noGrouping, minor, major) ==
    LET blank == [i \in 1..program.cycleTime |->
                     [j \in 1..(maxSgIndexOf(sgIdx) + 1) |-> <<>>]]
        built == programRows([exc |-> "none", sigProgram |-> blank, start_index |-> 0,
                              dur |-> 0],
                             program.rows, 1, sgIdx, redYellow, yellow)
        timedProgram == timedProgramOf(built.sigProgram, noGrouping)
        filled(state) == [j \in 1..Len(state) |->
                             IF Len(state[j]) > 0 THEN state[j] ELSE <<o>>]
        normal(j) == normalizeStates(filled(timedProgram[j][2]), getIndex2Groups(sgIdx),
                                     minor, major)
    IN  IF program.rows = <<>> THEN Return(<<>>)
        ELSE IF built.exc # "none" THEN Raise(built.exc)
        ELSE IF \E j \in 1..Len(timedProgram) : normal(j).exc # "none"
        THEN Raise("AssertionError")
        ELSE Return([j \in 1..Len(timedProgram) |->
                        <<timedProgram[j][1], normal(j).value>>])

\* line 726
CallParseSignalPrograms ==
    /\ ret.fn = "none"
    /\ args.fn = "parseSignalPrograms"
    /\ ret' = [fn |-> args.fn] @@
              parseSignalPrograms(args.program, args.sgIndex, args.redYellowDur,
                                  args.yellowDur, args.noGrouping, args.minorIndex,
                                  args.majorIndex)
    /\ UNCHANGED <<args, pipeVars, fileVars>>

----------------------------------------------------------------------------
(* Direct calls of the state-interpretation functions *)

CallInterpretComplexState ==
    /\ ret.fn = "none"
    /\ args.fn = "interpret_complex_state"
    /\ ret' = [fn |-> args.fn] @@ interpret_complex_state(args.state)
    /\ UNCHANGED <<args, pipeVars, fileVars>>

\* the call of line 640 (parseSignalPrograms), which passes a majorIndex
CallNormalizeStates ==
    /\ ret.fn = "none"
    /\ args.fn = "normalizeStates"
    /\ ret' = [fn |-> args.fn] @@ normalizeStates(args.states, args.index2groups,
                                                  args.minorIndex, args.majorIndex)
    /\ UNCHANGED <<args, pipeVars, fileVars>>

\* lines 667, 299, 352 and 638: index2groups = getIndex2Groups(sgIndex)
CallGetIndex2Groups ==
    /\ ret.fn = "none"
    /\ args.fn = "getIndex2Groups"
    /\ ret' = [fn |-> args.fn] @@ Return(getIndex2Groups(args.sgIndex))
    /\ UNCHANGED <<args, pipeVars, fileVars>>

NextCall ==
    \/ CallInterpretComplexState
    \/ CallNormalizeStates

----------------------------------------------------------------------------
(* Inputs *)

\* the letters of SIGNALSTATE_SUMOSTATE (lines 70-83) and the 'g' of SUMOSTATE_COMPLEX
Letters == {"G", "g", "y", "r", "u", "O", "o"}

\* all lists of length lo..hi over S
ListsOver(S, lo, hi) == UNION { [1..n -> S] : n \in lo..hi }

PhaseIDs == <<"P1", "P2", "P3">>

\* majorIndex of buildCycles (line 537): the first number in the phase ID
MajorOf == [p \in {"P1", "P2", "P3"} |->
                IF p = "P1" THEN 1 ELSE IF p = "P2" THEN 2 ELSE 3]

\* transition IDs by position; the first one is also the ID of a phase
TransitionIDs == <<"P1", "PUe2", "PUe3", "PUe4">>

\* group IDs: two signals and a blinker
K1 == <<"K", "1">>
K2 == <<"K", "2">>
BL1 == <<"B", "L", "1">>

\* no records left to read
NoFile == [phaseList |-> <<>>, transitionList |-> <<>>]

\* the items of sgIndex that give index2groups `groupsOf`: every group of
\* every index, in the order of the indices and of the lists
RECURSIVE ownersOf(_, _)
ownersOf(groupsOf, i) ==
    IF i \notin DOMAIN groupsOf THEN <<>>
    ELSE [k \in 1..Len(groupsOf[i]) |-> [group |-> groupsOf[i][k], indices |-> <<i>>]]
         \o ownersOf(groupsOf, i + 1)

NoCall == [fn |-> "none"]
NoRet == [fn |-> "none", exc |-> "none", value |-> <<>>]

\* the state before line 686 once the records are parsed
Parsed(cyc, groupsOf, minor, yDur, ryDur, phs, trs) ==
    /\ pc = "parsed"
    /\ cycle = cyc
    /\ majorIndex = MajorOf
    /\ index2groups = groupsOf
    /\ minorIndex = minor
    /\ yellowDur = yDur
    /\ redYellowDur = ryDur
    /\ phases = phs
    /\ transitions = trs
    /\ timedTransitions = <<>>
    /\ phaseProperties = <<>>
    /\ comments = <<>>
    /\ sumoIndex = [x \in {} |-> 0]
    /\ stdout = <<>>
    /\ args = NoCall
    /\ ret = NoRet
    /\ ocitfile = NoFile
    /\ sgIndex = ownersOf(groupsOf, 0)
    /\ maxIndex = Len(phs[cyc[1]]) - 1

\* One link index shared by a signal and a blinker, [K1, BL1]: the complex
\* states that reduce to 'G', 'g', 'r' and 'O'.
ClearanceGroups == [i \in {0} |-> <<K1, BL1>>]
ClearanceStates == { <<G, O>>, <<G, o>>, <<r, O>>, <<O, O>> }

\* Clearance pipeline: one transition P1 -> P2 over one link index, every
\* timeline of 1..MaxLen ticks, every pair of clearance durations.
\* The 4-tick transition of the red-yellow example: ticks r r G G from an
\* all-red phase to a green one, redYellowDur 1.
ExampleRedYellow == << <<r, O>>, <<r, O>>, <<G, O>>, <<G, O>> >>

Init ==
    \E before \in ClearanceStates, after \in ClearanceStates,
       ticks \in ListsOver(ClearanceStates, 1, MaxLen) \cup {ExampleRedYellow},
       yd \in 0..MaxDur, ryd \in 0..MaxDur :
        Parsed(<<"P1", "P2">>, ClearanceGroups, {},
               [i \in {0} |-> yd], [i \in {0} |-> ryd],
               [p \in {"P1", "P2"} |-> IF p = "P1" THEN <<before>> ELSE <<after>>],
               << [id |-> "PUe1", fromPhase |-> "P1", toPhase |-> "P2",
                   states |-> [t \in 1..Len(ticks) |-> <<ticks[t]>>]] >>)

Spec == Init /\ [][Next]_vars

\* Compaction pipeline: two link indices with one group each, every timeline
\* of 1..MaxLen ticks over three letters per index, clearance durations 0 or 1
\* at index 0.
CompactGroups == [i \in {0, 1} |-> IF i = 0 THEN <<K1>> ELSE <<K2>>]
CompactStates == { <<a, b>> : a \in { <<r>>, <<G>>, <<y>> }, b \in { <<r>>, <<G>>, <<y>> } }

\* The 7-tick timeline of the compaction example, r r r y y G G at index 0.
ExampleCompact ==
    << << <<r>>, <<r>> >>, << <<r>>, <<r>> >>, << <<r>>, <<r>> >>, << <<y>>, <<r>> >>,
       << <<y>>, <<r>> >>, << <<G>>, <<r>> >>, << <<G>>, <<r>> >> >>

InitCompact ==
    \E ticks \in ListsOver(CompactStates, 1, MaxLen) \cup {ExampleCompact},
       dur \in {0, 1} :
        Parsed(<<"P1", "P2">>, CompactGroups, {},
               [i \in {0, 1} |-> IF i = 0 THEN dur ELSE 0],
               [i \in {0, 1} |-> IF i = 0 THEN dur ELSE 0],
               [p \in {"P1", "P2"} |-> IF p = "P1" THEN << <<G>>, <<r>> >>
                                       ELSE << <<r>>, <<G>> >>],
               << [id |-> "PUe1", fromPhase |-> "P1", toPhase |-> "P2",
                   states |-> ticks] >>)

SpecCompact == InitCompact /\ [][Next]_vars

\* Assembler pipeline: every cycle drawn in order from P1, P2, P3 and up to
\* MaxTrans transitions between phases of the cycle, each with one of three
\* timelines (1, 2 or 3 ticks).
RECURSIVE SubSeqs(_)
SubSeqs(list) ==
    IF list = <<>> THEN { <<>> }
    ELSE LET rest == SubSeqs(Tail(list))
         IN  rest \cup { <<Head(list)>> \o x : x \in rest }

AssemblerTimelines ==
    { << << <<r, O>> >> >>,
      << << <<r, O>> >>, << <<G, O>> >> >>,
      << << <<G, O>> >>, << <<r, O>> >>, << <<r, O>> >> >> }

AssemblerPhase == [p \in {"P1", "P2", "P3"} |->
                     IF p = "P1" THEN << <<G, O>> >>
                     ELSE IF p = "P2" THEN << <<r, O>> >> ELSE << <<G, o>> >>]

InitAssembler ==
    \E cyc \in SubSeqs(PhaseIDs) \ { <<>> } :
      LET inCycle == { cyc[k] : k \in 1..Len(cyc) }
          Entries == [fromPhase : inCycle, toPhase : inCycle, states : AssemblerTimelines]
      IN  \E n \in 0..MaxTrans :
            \E trs \in [1..n -> { e \in Entries : e.fromPhase # e.toPhase }] :
              Parsed(cyc, ClearanceGroups, {}, [i \in {0} |-> 1], [i \in {0} |-> 1],
                     [p \in inCycle |-> AssemblerPhase[p]],
                     [k \in 1..n |-> [id |-> TransitionIDs[k]] @@ trs[k]])

SpecAssembler == InitAssembler /\ [][Next]_vars

\* Direct calls: interpret_complex_state on every letter tuple of 1..MaxGroups
\* letters (one of them foreign to the table), normalizeStates on every vector
\* over two link indices, [K1] and [K2, BL1], with every minor and major set.
MaxGroups == 3

CallGroups == [i \in {0, 1} |-> IF i = 0 THEN <<K1>> ELSE <<K2, BL1>>]

LetterStrs == { <<c>> : c \in Letters }

InitCall ==
    /\ pc = "idle"
    /\ cycle = <<>>
    /\ majorIndex = MajorOf
    /\ index2groups = CallGroups
    /\ minorIndex = {}
    /\ yellowDur = <<>>
    /\ redYellowDur = <<>>
    /\ phases = <<>>
    /\ transitions = <<>>
    /\ timedTransitions = <<>>
    /\ phaseProperties = <<>>
    /\ comments = <<>>
    /\ sumoIndex = [x \in {} |-> 0]
    /\ stdout = <<>>
    /\ ret = NoRet
    /\ ocitfile = NoFile
    /\ sgIndex = ownersOf(CallGroups, 0)
    /\ maxIndex = 1
    /\ \/ \E state \in ListsOver(Letters \cup {"x"}, 1, MaxGroups) :
            args = [fn |-> "interpret_complex_state", state |-> state]
       \/ \E s0 \in LetterStrs, s1 \in LetterStrs, s2 \in LetterStrs,
             minor \in SUBSET {0, 1}, major \in SUBSET {K1, K2, BL1} :
            args = [fn |-> "normalizeStates", states |-> << <<s0>>, <<s1, s2>> >>,
                    index2groups |-> CallGroups, minorIndex |-> minor,
                    majorIndex |-> major]

SpecCall == InitCall /\ [][NextCall]_vars

\* No cycle is being compiled: the state of a direct call.
NoPipeline ==
    /\ pc = "idle"
    /\ cycle = <<>>
    /\ majorIndex = MajorOf
    /\ index2groups = <<>>
    /\ minorIndex = {}
    /\ yellowDur = <<>>
    /\ redYellowDur = <<>>
    /\ phases = <<>>
    /\ transitions = <<>>
    /\ timedTransitions = <<>>
    /\ phaseProperties = <<>>
    /\ comments = <<>>
    /\ sumoIndex = [x \in {} |-> 0]
    /\ stdout = <<>>
    /\ ocitfile = NoFile
    /\ sgIndex = <<>>
    /\ maxIndex = -1

\* Index model: getIndex2Groups on every dict of up to MaxGroups groups drawn
\* in any order from seven IDs (one plain signal, one with 'R', one with 'L',
\* one blinker of each spelling), each owning no link index, one or two.
KR1 == <<"K", "R", "1">>
FL2 == <<"F", "L", "2">>
H3 == <<"H", "3">>
Kge == <<"K", "g", "e">>
Fgn == <<"F", "g", "n">>
OwnerIDs == {K1, KR1, FL2, BL1, H3, Kge, Fgn}
OwnedIndices == { <<>>, <<0>>, <<1>>, <<0, 1>> }

\* the lists of n distinct elements of S
Distinct(S, n) == { s \in [1..n -> S] : \A k, l \in 1..n : k # l => s[k] # s[l] }

InitGroups ==
    /\ NoPipeline
    /\ ret = NoRet
    /\ \E n \in 0..MaxGroups :
         \E ids \in Distinct(OwnerIDs, n), owned \in [1..n -> OwnedIndices] :
            args = [fn |-> "getIndex2Groups",
                    sgIndex |-> [k \in 1..n |-> [group |-> ids[k], indices |-> owned[k]]]]

SpecGroups == InitGroups /\ [][CallGetIndex2Groups]_vars

\* File pipeline: the cycle [P1, P2] of a file that lists P1, P2 and P3, over
\* link indices 0..3.  Index 0 is shared by three groups, index 1 has no
\* group, index 2 belongs to the first signal alone, index 3 to the second.
OcitSgIndex ==
    { << [group |-> BL1, indices |-> <<0>>], [group |-> K1, indices |-> <<0, 2>>],
         [group |-> K2, indices |-> <<3>>], [group |-> H3, indices |-> <<0>>] >>,
      << [group |-> K1, indices |-> <<0, 2>>], [group |-> BL1, indices |-> <<0>>],
         [group |-> KR1, indices |-> <<0>>], [group |-> K2, indices |-> <<3>>] >> }

El(group, signal) == [group |-> group, signal |-> signal]

\* the signal elements of the first phase
OcitElements ==
    { << El(K1, "gruen") >>,
      << El(K1, "rot") >>,
      << El(K1, "gruen"), El(BL1, "gelbblk") >>,
      << El(BL1, "dunkel"), El(K1, "rot"), El(H3, "gelbblk") >>,
      << El(K1, "30"), El(KR1, "rot") >>,
      << El(K1, "rot"), El(K1, "gruen"), El(K2, "gruen"), El(Kge, "dunkel") >> }

At(time, signal) == [time |-> time, signal |-> signal]
Sw(group, times) == [group |-> group, hasInitial |-> FALSE, initial |-> "", times |-> times]
SwFrom(group, initial, times) ==
    [group |-> group, hasInitial |-> TRUE, initial |-> initial, times |-> times]

\* the switching elements of the transition P1 -> P2, one per group
OcitSwitching ==
    { <<>>,
      << Sw(K1, << At(1, "rot") >>) >>,
      << SwFrom(K1, "gruen", << At(0, "rot"), At(2, "gruen") >>) >>,
      << Sw(K1, << At(2, "gruen"), At(1, "rot") >>) >>,
      << SwFrom(K1, "rot", << At(1, "gelb"), At(1, "gruen") >>) >>,
      << SwFrom(BL1, "gelbblk", << At(1, "dunkel") >>), Sw(K1, << At(MaxLen, "rot") >>) >>,
      << Sw(K2, << At(0, "gruen") >>) >>,
      << Sw(K2, << At(1, "rot") >>), SwFrom(Kge, "dunkel", <<>>) >> }

Tr(ID, duration, hasFrom, fromPhase, toPhase, elements) ==
    [ID |-> ID, duration |-> duration, hasFrom |-> hasFrom, fromPhase |-> fromPhase,
     toPhase |-> toPhase, elements |-> elements]

\* the transition lists around the transition `first`
OcitTransitionLists(first) ==
    { << first >>,
      << first, Tr("PUe2", 0, TRUE, "P2", "P1", <<>>) >>,
      << Tr("PUe2", 2, TRUE, "P1", "P3", <<>>), first >>,
      << Tr("PUe2", 1, FALSE, "", "", <<>>), first, Tr("PUe3", 2, TRUE, "P2", "P1", <<>>) >> }

InitOcit ==
    \E sgIdx \in OcitSgIndex, first \in OcitElements,
       green \in {"gruen", "rot"}, duration \in 0..MaxLen,
       switching \in OcitSwitching, dur \in {0, 1} :
      \E list \in OcitTransitionLists(Tr("PUe1", duration, TRUE, "P1", "P2", switching)) :
        /\ pc = "groups"
        /\ cycle = <<"P1", "P2">>
        /\ majorIndex = MajorOf
        /\ index2groups = <<>>
        /\ minorIndex = {}
        /\ yellowDur = [i \in 0..3 |-> IF i = 1 THEN 0 ELSE dur]
        /\ redYellowDur = [i \in 0..3 |-> IF i = 1 THEN 0 ELSE dur]
        /\ phases = <<>>
        /\ transitions = <<>>
        /\ timedTransitions = <<>>
        /\ phaseProperties = <<>>
        /\ comments = <<>>
        /\ sumoIndex = [x \in {} |-> 0]
        /\ stdout = <<>>
        /\ args = NoCall
        /\ ret = NoRet
        /\ ocitfile = [phaseList |-> << [ID |-> "P1", elements |-> first],
                                        [ID |-> "P2", elements |-> << El(K1, green) >>],
                                        [ID |-> "P3", elements |-> << El(K1, "gelb") >>] >>,
                       transitionList |-> list]
        /\ sgIndex = sgIdx
        /\ maxIndex = 3

SpecOcit == InitOcit /\ [][NextOcit]_vars

\* Cycle builder: buildCycles on every list of up to MaxPhases distinct phase
\* IDs, in any order, with tags in the decades 0, 1 and 2 (and one ID without
\* a digit), and every ignore set over three of the tags.
MaxPhases == 3

CyclePhaseIDs ==
    { <<"P", "1">>, <<"P", "2">>, <<"P", "1", "1">>, <<"P", "1", "2">>,
      <<"P", "2", "1", "a", "7">>, <<"P", "2", "2">>, <<"P", "A">> }

InitCycles ==
    /\ NoPipeline
    /\ ret = NoRet
    /\ \E n \in 0..MaxPhases :
         \E phs \in Distinct(CyclePhaseIDs, n), ignorePhases \in SUBSET {1, 2, 11} :
            args = [fn |-> "buildCycles", phases |-> phs, ignorePhases |-> ignorePhases]

SpecCycles == InitCycles /\ [][CallBuildCycles]_vars

\* Continuous-program mode: one program of cycle length MaxDur..MaxCycle with
\* a row of one or two switches (any times 0..cycleTime, green or red) for the
\* first signal and none or one of two rows for the second, every pair of
\* clearance durations up to MaxDur, grouped and ungrouped.
MaxCycle == 4

ProgramSgIndex ==
    { << [group |-> K1, indices |-> <<0>>] >>,
      << [group |-> K1, indices |-> <<0>>], [group |-> K2, indices |-> <<0, 1>>] >> }

Row(group, switches) ==
    [group |-> group, switches |-> switches, hasPerm |-> FALSE, permState |-> ""]
PermRow(group, permState) ==
    [group |-> group, switches |-> <<>>, hasPerm |-> TRUE, permState |-> permState]

SecondRows ==
    { <<>>, << PermRow(K2, "gelbblk") >>,
      << Row(K2, << At(1, "gruen"), At(2, "rot") >>) >>, << Row(K2, <<>>) >> }

InitPrograms ==
    /\ NoPipeline
    /\ ret = NoRet
    /\ \E cycleTime \in MaxDur..MaxCycle, sgIdx \in ProgramSgIndex,
          yd \in 0..MaxDur, ryd \in 0..MaxDur, noGrouping \in BOOLEAN,
          second \in SecondRows :
         \E switches \in ListsOver([time : 0..cycleTime, signal : {"gruen", "rot"}], 1, 2) :
            args = [fn |-> "parseSignalPrograms",
                    program |-> [cycleTime |-> cycleTime,
                                 rows |-> << Row(K1, switches) >> \o second],
                    sgIndex |-> sgIdx,
                    yellowDur |-> [index |-> [i \in 0..1 |-> yd],
                                   group |-> [id \in {K1, K2} |-> yd]],
                    redYellowDur |-> [index |-> [i \in 0..1 |-> ryd],
                                      group |-> [id \in {K1, K2} |-> ryd]],
                    noGrouping |-> noGrouping,
                    minorIndex |-> {},
                    majorIndex |-> {}]

SpecPrograms == InitPrograms /\ [][CallParseSignalPrograms]_vars

----------------------------------------------------------------------------
(* Properties *)

Cleared == pc \in {"cleared", "compacted", "generated"}

\* the state of index i at tick t of entry e, with the from-phase state at
\* t = -1 and the to-phase state at t = len
Ext(e, i, t) ==
    IF t = -1 THEN StrAt(phases[e.fromPhase], i)
    ELSE IF t = Len(e.states) THEN StrAt(phases[e.toPhase], i)
    ELSE e.states[t + 1][i + 1]

Green == {G, g}

Indices(e) == Range(0, Len(phases[e.toPhase]))
Ticks(e) == Range(0, Len(e.states))

\* C1: in generateSumoPhases every transition from cycle[k] to the next phase
\* of the cycle is emitted immediately after the tuple of cycle[k] and before
\* the tuple of cycle[k+1].
C1_TransitionInline ==
    pc = "generated" =>
        \A k \in Range(0, Len(cycle)), j \in 1..Len(timedTransitions) :
            LET e == timedTransitions[j]
                next == (k + 1) % Len(cycle)
                pos == sumoIndex[cycle[k + 1]]
                n == Len(e.timedTransition)
            IN  e.key[2] = <<cycle[k + 1], cycle[next + 1]>> =>
                    /\ pos + n < Len(phaseProperties)
                    /\ \A i \in 1..n :
                        /\ comments[pos + 1 + i][3] = e.key[1]
                        /\ phaseProperties[pos + 1 + i][1] = e.timedTransition[i][1]
                        /\ phaseProperties[pos + 1 + i][2] = Join(e.timedTransition[i][2])
                    /\ next > k => sumoIndex[cycle[next + 1]] = pos + n + 1

\* output positions (0-based) of the stable-phase tuples
StablePositions == { sumoIndex[p] : p \in DOMAIN sumoIndex }

\* output positions (0-based) of the tuples of the transition with this ID
Block(id) == { p \in Range(0, Len(phaseProperties)) :
                  p \notin StablePositions /\ comments[p + 1][3] = id }

Min(S) == CHOOSE x \in S : \A z \in S : x <= z
Max(S) == CHOOSE x \in S : \A z \in S : x >= z

\* C2: every stable-phase tuple and every tuple of a transition but its last
\* has nextIndex -1; the last tuple of a transition has the output index of
\* the destination phase if that phase was emitted before it, else -1.
C2_NextIndex ==
    pc = "generated" =>
        /\ \A p \in StablePositions : phaseProperties[p + 1][3] = -1
        /\ \A j \in 1..Len(timedTransitions) :
            LET e == timedTransitions[j]
                to == e.key[2][2]
                block == Block(e.key[1])
            IN  /\ block # {}
                /\ \A p \in block :
                     phaseProperties[p + 1][3] =
                        IF p = Max(block) /\ to \in DOMAIN sumoIndex
                                          /\ sumoIndex[to] < Min(block)
                        THEN sumoIndex[to] ELSE -1

C2_Witness ==
    /\ pc = "generated"
    /\ \E j \in 1..Len(timedTransitions) :
         LET block == Block(timedTransitions[j].key[1])
         IN  /\ Cardinality(block) >= 2
             /\ phaseProperties[Max(block) + 1][3] = sumoIndex[timedTransitions[j].key[2][2]]
             /\ phaseProperties[Min(block) + 1][3] = -1

\* C3: after recheckGreenMinor and addRedYellow no tick of a transition shows
\* 'G' at an index whose from-phase letter is 'g' and whose to-phase letter is
\* not 'G'.
C3_NoMajorAfterMinor ==
    Cleared =>
        \A k \in 1..Len(transitions) :
            \A i \in Indices(transitions[k]) :
                (Ext(transitions[k], i, -1) = g
                    /\ Ext(transitions[k], i, Len(transitions[k].states)) # G)
                => \A t \in Ticks(transitions[k]) : Ext(transitions[k], i, t) # G

\* a correction was made and printed, and clearance insertion has run
C3_Witness ==
    /\ pc = "cleared"
    /\ stdout # <<>>
    /\ Ext(transitions[1], 0, -1) = g
    /\ \E t \in Ticks(transitions[1]) : Ext(transitions[1], 0, t) = g

\* the first tick of entry e at which index i shows 'r' right after green
FirstGreenToRed(e, i) ==
    LET hits == { t \in Ticks(e) : Ext(e, i, t) = r /\ Ext(e, i, t - 1) \in Green }
    IN  IF hits = {} THEN NoTick ELSE Min(hits)

\* the yellow window of index i would pass the end of the transition
Overruns(e, i) ==
    /\ FirstGreenToRed(e, i) # NoTick
    /\ FirstGreenToRed(e, i) + yellowDur[i] > Len(e.states)

C5_NeverRedToGreen ==
    Cleared =>
        \A k \in 1..Len(transitions) :
            \A i \in Indices(transitions[k]) :
                \A t \in Ticks(transitions[k]) :
                    ~(Ext(transitions[k], i, t) = r
                        /\ Ext(transitions[k], i, t + 1) \in Green)

\* the last tick (-1 for the from-phase) at which index i shows 'r' and the
\* next state is green or the clearance letter 'u'
LastRedToGreen(e, i) ==
    LET hits == { t \in Range(-1, Len(e.states)) :
                    Ext(e, i, t) = r /\ Ext(e, i, t + 1) \in Green \cup {u} }
    IN  IF hits = {} THEN NoTick ELSE Max(hits)

\* C5 amended: after clearance insertion, at an index with red-yellow
\* duration 1 the last change from 'r' to green in the timeline (from-phase
\* before it, to-phase after it) passes through 'u' whenever the tick after
\* the red is a tick of the transition; other durations, earlier changes and
\* the change from the last tick to the to-phase get no clearance letter.
C5_LastRedToGreen ==
    Cleared =>
        \A k \in 1..Len(transitions) :
            \A i \in Indices(transitions[k]) :
                LET t == LastRedToGreen(transitions[k], i)
                IN  (redYellowDur[i] = 1 /\ t # NoTick /\ t + 1 < Len(transitions[k].states))
                    => Ext(transitions[k], i, t + 1) = u

\* 'u' was inserted while an earlier red is still followed directly by green
C5_Witness ==
    /\ pc = "cleared"
    /\ redYellowDur[0] = 1
    /\ \E t \in Ticks(transitions[1]) :
         /\ Ext(transitions[1], 0, t) = u
         /\ \E t2 \in Range(-1, t) :
              /\ Ext(transitions[1], 0, t2) = r
              /\ Ext(transitions[1], 0, t2 + 1) \in Green

\* C6: when the yellow window of the first green-to-red change passes the end
\* of the transition, addRedYellow sets the ticks t .. length-1 to 'y' and
\* completes without error.
C6_StopsAtBoundary ==
    [][(/\ pc = "rechecked"
        /\ \E k \in 1..Len(transitions) :
             \E i \in Indices(transitions[k]) : Overruns(transitions[k], i))
       => /\ pc' = "cleared"
          /\ \A k \in 1..Len(transitions) :
               \A i \in Indices(transitions[k]) :
                 Overruns(transitions[k], i) =>
                   \A t2 \in Range(FirstGreenToRed(transitions[k], i),
                                   Len(transitions[k].states)) :
                       transitions'[k].states[t2 + 1][i + 1] = y
    ]_vars

\* entry e after the forward (yellow) pass at index i
AfterYellow(e, i) ==
    [e EXCEPT !.states = addYellow(e.states, i, Ext(e, i, -1), yellowDur[i]).value]

\* the last tick (-1 for the from-phase) at which index i shows 'r' and the
\* next state (the to-phase after the last tick) is green
LastRedThenGreen(e, i) ==
    LET hits == { t \in Range(-1, Len(e.states)) :
                    Ext(e, i, t) = r /\ Ext(e, i, t + 1) \in Green }
    IN  IF hits = {} THEN NoTick ELSE Max(hits)

\* the column of index i in a list of ticks, with `c` written at tick t
Column(states, i) == [k \in 1..Len(states) |-> states[k][i + 1]]
ColumnWith(states, i, t, c) ==
    [k \in 1..Len(states) |-> IF k = t + 1 THEN c ELSE states[k][i + 1]]

\* C7 as stated: with redYellowDur[index] == 1 the state after the red of the
\* last red-to-green boundary (scanning back from the to-phase) is 'u' after
\* the backward pass.
C7_AlwaysOverwrites ==
    [][(pc = "rechecked" /\ pc' = "cleared") =>
        \A k \in 1..Len(transitions) :
            \A i \in Indices(transitions[k]) :
                LET e == AfterYellow(transitions[k], i)
                    t == LastRedThenGreen(e, i)
                IN  (redYellowDur[i] = 1 /\ t # NoTick)
                    => Ext(transitions'[k], i, t + 1) = u
    ]_vars

\* C7 amended: with redYellowDur[index] == 1 the backward pass overwrites
\* exactly the tick after the red of the last red-to-green boundary with 'u'
\* when that tick belongs to the transition, and changes no other tick; when
\* the red is the last tick (the green is the to-phase state) it changes
\* nothing.
C7_BackwardPass ==
    [][(pc = "rechecked" /\ pc' = "cleared") =>
        \A k \in 1..Len(transitions) :
            \A i \in Indices(transitions[k]) :
                LET e == AfterYellow(transitions[k], i)
                    t == LastRedThenGreen(e, i)
                IN  redYellowDur[i] = 1 =>
                      Column(transitions'[k].states, i) =
                        IF t # NoTick /\ t + 1 < Len(e.states)
                        THEN ColumnWith(e.states, i, t + 1, u)
                        ELSE Column(e.states, i)
    ]_vars

\* the red-yellow example: r r G G towards green has become r r u G
C7_Witness ==
    /\ pc = "cleared"
    /\ redYellowDur[0] = 1
    /\ Ext(transitions[1], 0, 4) = G
    /\ Column(transitions[1].states, 0) = <<r, r, u, G>>

\* the ticks a list of (duration, state) pairs stands for
RECURSIVE Expand(_)
Expand(timed) ==
    IF timed = <<>> THEN <<>>
    ELSE Repeat(Head(timed)[2], Head(timed)[1]) \o Expand(Tail(timed))

\* C8: expanding the (duration, state) pairs of compactifyTransitions gives
\* back the tick sequence it was given, state for state.
C8_RoundTrip ==
    pc \in {"compacted", "generated"} =>
        /\ Len(timedTransitions) = Len(transitions)
        /\ \A k \in 1..Len(transitions) :
             Expand(timedTransitions[k].timedTransition) = transitions[k].states

\* the compaction example: r r r y y G G at index 0 gives (3,r), (2,y), (2,G)
C8_Witness ==
    /\ pc = "compacted"
    /\ Column(transitions[1].states, 0) = <<r, r, r, y, y, G, G>>
    /\ timedTransitions[1].timedTransition =
         << <<3, <<r, r>>>>, <<2, <<y, r>>>>, <<2, <<G, r>>>> >>

\* C9: normalizeStates returns 'G' at every index that has a group in the
\* major-override set; at the other indices it returns the reduced letter,
\* demoted from 'G' to 'g' when the index is in the minor-override set.
C9_MajorForcesG ==
    ret.fn = "normalizeStates" =>
        \A i \in Range(0, Len(args.states)) :
            LET groups == args.index2groups[i]
                reduced == interpret_complex_state(Join(args.states[i + 1]))
            IN  IF \E k \in 1..Len(groups) : groups[k] \in args.majorIndex
                THEN ret.exc = "none" /\ ret.value[i + 1] = G
                ELSE reduced.exc = "none" =>
                        (ret.exc = "none" =>
                            ret.value[i + 1] =
                                IF reduced.value = G /\ i \in args.minorIndex
                                THEN g ELSE reduced.value)

\* C10: interpret_complex_state returns the common letter of a tuple of equal
\* letters, else the table entry of the tuple, else fails its assertion; what
\* it returns is one letter long.
C10_Interpret ==
    ret.fn = "interpret_complex_state" =>
        LET state == args.state
        IN  /\ IF \A k \in 1..Len(state) : state[k] = state[1]
               THEN ret.exc = "none" /\ ret.value = <<state[1]>>
               ELSE IF state \in DOMAIN SUMOSTATE_COMPLEX
               THEN ret.exc = "none" /\ ret.value = SUMOSTATE_COMPLEX[state]
               ELSE ret.exc = "AssertionError"
            /\ ret.exc = "none" => Len(ret.value) = 1
            /\ state = <<"r", "O">> => ret.value = r
            /\ state = <<"G", "G", "G">> => ret.value = G
            /\ state = <<"x", "y">> => ret.exc = "AssertionError"

\* a tuple without a table entry has failed the assertion
C10_Witness ==
    /\ ret.fn = "interpret_complex_state"
    /\ args.state = <<"x", "y">>
    /\ ret.exc = "AssertionError"

----------------------------------------------------------------------------
(* Signal-group index model *)

\* the priority of a group as the index model states it
StatedPriority(id) ==
    IF \/ Contains(id, <<"B", "L">>) \/ Contains(id, <<"g", "e">>)
       \/ Contains(id, <<"g", "n">>) \/ Contains(id, <<"H">>)
    THEN 2
    ELSE IF Contains(id, <<"R">>) \/ Contains(id, <<"L">>) THEN 0
    ELSE 1

\* the place of a group among the keys of the argument sgIndex
InputPlace(id) == CHOOSE k \in 1..Len(args.sgIndex) : args.sgIndex[k].group = id

Elements(list) == { list[k] : k \in 1..Len(list) }

\* C11: every list of getIndex2Groups is ordered by non-decreasing priority
\* (blinker 2, non-blinker with 'R' or 'L' 0, others 1), groups of equal
\* priority keep their input order, and a group is in the list of exactly the
\* indices it owns.
C11_PriorityOrder ==
    ret.fn = "getIndex2Groups" =>
        LET i2g == ret.value
        IN  /\ \A i \in DOMAIN i2g : \A k, l \in 1..Len(i2g[i]) :
                  k < l =>
                    /\ StatedPriority(i2g[i][k]) <= StatedPriority(i2g[i][l])
                    /\ StatedPriority(i2g[i][k]) = StatedPriority(i2g[i][l])
                         => InputPlace(i2g[i][k]) < InputPlace(i2g[i][l])
            /\ \A i \in DOMAIN i2g :
                  Elements(i2g[i]) =
                      { args.sgIndex[n].group : n \in { m \in 1..Len(args.sgIndex) :
                                                   i \in Elements(args.sgIndex[m].indices) } }
            /\ \A n \in 1..Len(args.sgIndex) :
                  Elements(args.sgIndex[n].indices) \subseteq DOMAIN i2g

\* a list of three groups of priorities 0, 1 and 2 that came in the order
\* blinker, plain, 'R'/'L' group
C11_Witness ==
    /\ ret.fn = "getIndex2Groups"
    /\ \E i \in DOMAIN ret.value :
          LET list == ret.value[i]
          IN  /\ Len(list) = 3
              /\ [k \in 1..3 |-> StatedPriority(list[k])] = <<0, 1, 2>>
              /\ InputPlace(list[1]) > InputPlace(list[2])
              /\ InputPlace(list[2]) > InputPlace(list[3])
              /\ Contains(list[3], <<"B", "L">>)

----------------------------------------------------------------------------
(* State vectors of the phase-list pipeline *)

PhasesBuilt == pc \notin {"groups", "indexed"}
Normalized == pc \in {"normalized", "rechecked", "cleared", "IndexError", "compacted",
                      "generated"}

\* the link indices that no group of sgIndex owns
Unowned == { i \in 0..maxIndex :
               \A n \in 1..Len(sgIndex) : i \notin Elements(sgIndex[n].indices) }

\* the link indices that no signal element of the record of phase p writes to
Unwritten(p) ==
    { i \in 0..maxIndex :
        \A n \in 1..Len(ocitfile.phaseList) :
            ocitfile.phaseList[n].ID = p =>
                \A e \in 1..Len(ocitfile.phaseList[n].elements) :
                    \A m \in 1..Len(sgIndex) :
                        sgIndex[m].group = ocitfile.phaseList[n].elements[e].group
                            => i \notin Elements(sgIndex[m].indices) }

\* C12: every phase state, every tick of every transition timeline and every
\* state string of the compiled program has maxIndex + 1 entries; after
\* normalization every entry is one letter of G g y r u O o; an index no group
\* writes to holds the default 'O'.
C12_VectorWidth ==
    /\ PhasesBuilt => \A p \in DOMAIN phases : Len(phases[p]) = maxIndex + 1
    /\ \A k \in 1..Len(transitions) : \A t \in 1..Len(transitions[k].states) :
          Len(transitions[k].states[t]) = maxIndex + 1
    /\ \A k \in 1..Len(timedTransitions) :
          \A t \in 1..Len(timedTransitions[k].timedTransition) :
              Len(timedTransitions[k].timedTransition[t][2]) = maxIndex + 1
    /\ \A k \in 1..Len(phaseProperties) : Len(phaseProperties[k][2]) = maxIndex + 1
    /\ Normalized =>
          /\ \A p \in DOMAIN phases : \A i \in 1..Len(phases[p]) :
                phases[p][i] \in Letters
          /\ \A k \in 1..Len(transitions) : \A t \in 1..Len(transitions[k].states) :
                \A i \in 1..Len(transitions[k].states[t]) :
                    /\ Len(transitions[k].states[t][i]) = 1
                    /\ transitions[k].states[t][i][1] \in Letters
          /\ \A k \in 1..Len(phaseProperties) : \A i \in 1..Len(phaseProperties[k][2]) :
                phaseProperties[k][2][i] \in Letters
    /\ PhasesBuilt /\ ~Normalized =>
          /\ \A p \in DOMAIN phases : \A i \in Unwritten(p) :
                \A slot \in 1..Len(phases[p][i + 1]) : phases[p][i + 1][slot] = O
          /\ \A k \in 1..Len(transitions) : \A t \in 1..Len(transitions[k].states) :
                \A i \in Unowned : transitions[k].states[t][i + 1] = <<O>>
    /\ Normalized =>
          /\ \A p \in DOMAIN phases : \A i \in Unwritten(p) : StrAt(phases[p], i) = O
          /\ \A k \in 1..Len(transitions) : \A t \in 1..Len(transitions[k].states) :
                \A i \in Unowned : transitions[k].states[t][i + 1] = O
          /\ \A k \in 1..Len(phaseProperties) : \A i \in Unowned :
                StrAt(phaseProperties[k][2], i) = O

\* a compiled program over four link indices, of two phases and a transition
\* of several tuples, whose second index has no group
C12_Witness ==
    /\ pc = "generated"
    /\ maxIndex = 3
    /\ 1 \in Unowned
    /\ Len(phaseProperties) > 3
    /\ \E k \in 1..Len(phaseProperties) :
          /\ StrAt(phaseProperties[k][2], 0) = y
          /\ StrAt(phaseProperties[k][2], 1) = O

----------------------------------------------------------------------------
(* Cycle builder *)

\* the decade of the tag of phase p
Decade(p) == ret.value.majorIndex[p] \div 10

\* C13: every cycle yielded by buildCycles is a non-empty list of phase IDs
\* whose tags fall in one decade, and holds no phase whose tag is ignored.
C13_CyclesWellFormed ==
    ret.fn = "buildCycles" /\ ret.exc = "none" =>
        \A c \in 1..Len(ret.value.cycles) :
            LET cyc == ret.value.cycles[c]
            IN  /\ cyc # <<>>
                /\ \A k, l \in 1..Len(cyc) : Decade(cyc[k]) = Decade(cyc[l])
                /\ \A k \in 1..Len(cyc) :
                      ret.value.majorIndex[cyc[k]] \notin args.ignorePhases

----------------------------------------------------------------------------
(* Continuous-program mode *)

Emitted == ret.fn = "parseSignalPrograms" /\ ret.exc = "none" /\ args.program.rows # <<>>

RECURSIVE SumDur(_)
SumDur(timed) == IF timed = <<>> THEN 0 ELSE Head(timed)[1] + SumDur(Tail(timed))

\* C14: the durations of the emitted pairs sum to the cycle length; without
\* grouping there are cycleTime pairs of duration 1; with grouping, expanding
\* the pairs gives the per-tick sequence of the ungrouped output.
C14_DurationsSum ==
    Emitted =>
        LET ungrouped == parseSignalPrograms(args.program, args.sgIndex, args.redYellowDur,
                                             args.yellowDur, TRUE, args.minorIndex,
                                             args.majorIndex)
        IN  /\ SumDur(ret.value) = args.program.cycleTime
            /\ args.noGrouping =>
                  /\ Len(ret.value) = args.program.cycleTime
                  /\ \A j \in 1..Len(ret.value) : ret.value[j][1] = 1
            /\ ~args.noGrouping =>
                  /\ ungrouped.exc = "none"
                  /\ Expand(ret.value) = [j \in 1..Len(ungrouped.value) |->
                                             ungrouped.value[j][2]]

\* a grouped program of several pairs, one of them longer than a tick
C14_Witness ==
    /\ Emitted
    /\ ~args.noGrouping
    /\ Len(ret.value) >= 3
    /\ \E j \in 1..Len(ret.value) : ret.value[j][1] > 1

\* the rows of the program whose group is a key of the argument sgIndex and
\* that declare switches
SwitchRows == { n \in 1..Len(args.program.rows) :
                  /\ args.program.rows[n].group \in Elements(sgKeys(args.sgIndex))
                  /\ args.program.rows[n].switches # <<>> }

\* the clearance window of switch k of row n at link index idx, as loop values
Window(n, k, idx) ==
    LET row == args.program.rows[n]
        onset == SIGNALSTATE_SUMOSTATE[row.switches[k].signal] = G
        durs == IF onset THEN args.redYellowDur ELSE args.yellowDur
        dur == IF durs.index[idx] < durs.group[row.group]
               THEN durs.index[idx] ELSE durs.group[row.group]
    IN  IF onset THEN (row.switches[k].time - dur) .. (row.switches[k].time - 1)
        ELSE row.switches[k].time .. (row.switches[k].time + dur - 1)

\* the tick of the cycle a loop value stands for
Modulo(i) == i % args.program.cycleTime

\* C15: the clearance windows wrap modulo cycleTime: a tick of a window that
\* crosses the cycle boundary is written on the other side of the cycle and
\* shows 'y' or 'u' at that index in the final per-tick timeline (for a link
\* index of one group, and a tick in no other window of the row).
C15_WrappedClearance ==
    Emitted /\ args.noGrouping =>
        \A n \in SwitchRows :
            LET row == args.program.rows[n]
            IN  \A k \in 1..Len(row.switches), idx \in Elements(sgGet(args.sgIndex, row.group)) :
                    \A i \in Window(n, k, idx) :
                        /\ Modulo(i) \in 0..(args.program.cycleTime - 1)
                        /\ ( /\ i \notin 0..(args.program.cycleTime - 1)
                             /\ \A m \in 1..Len(args.sgIndex) :
                                   idx \in Elements(args.sgIndex[m].indices)
                                       => args.sgIndex[m].group = row.group
                             /\ \A l \in 1..Len(row.switches) :
                                   l # k => \A j \in Window(n, l, idx) :
                                                Modulo(j) # Modulo(i) )
                            => ret.value[Modulo(i) + 1][2][idx + 1] =
                                   IF SIGNALSTATE_SUMOSTATE[row.switches[k].signal] = G
                                   THEN u ELSE y

----------------------------------------------------------------------------
(* Transition synthesizer *)

\* the record of the file that the entry e of `transitions` was built from
RecordOf(e) ==
    ocitfile.transitionList[CHOOSE n \in 1..Len(ocitfile.transitionList) :
                                ocitfile.transitionList[n].ID = e.id]

\* the last-declared switch time of element sg that is <= t (0: none)
LastEvent(sg, t) ==
    LET due == { m \in 1..Len(sg.times) : sg.times[m].time <= t }
    IN  IF due = {} THEN 0 ELSE Max(due)

\* the initial letter of element sg: its start picture, or else the first
\* slot of the from-phase state at the first index of its group
StatedInitial(sg, fromPhase) ==
    IF sg.hasInitial THEN SIGNALSTATE_SUMOSTATE[sg.initial]
    ELSE phases[fromPhase][sgGet(sgIndex, sg.group)[1] + 1][1]

\* C16: before normalization, the slot of the group of a switching element
\* shows, at every tick t and every index of the group, the colour of the
\* last-declared switch time <= t, or the element's initial letter if there
\* is none; the slot of a group without a switching element keeps the seeded
\* initial state at every tick.
C16_LastWriteWins ==
    pc = "parsed" =>
        \A k \in 1..Len(transitions) :
            LET e == transitions[k]
                rec == RecordOf(e)
                seeded == reduceComplexState(index2groups, phases, e.fromPhase).value
            IN  /\ \A el \in 1..Len(rec.elements) :
                      LET sg == rec.elements[el]
                      IN  \A t \in Ticks(e), idx \in Elements(sgGet(sgIndex, sg.group)) :
                              e.states[t + 1][idx + 1][indexOf(index2groups[idx], sg.group) + 1]
                                  = IF LastEvent(sg, t) = 0
                                    THEN StatedInitial(sg, e.fromPhase)
                                    ELSE SIGNALSTATE_SUMOSTATE[sg.times[LastEvent(sg, t)].signal]
                /\ \A idx \in 0..maxIndex :
                      \A slot \in 1..Len(seeded[idx + 1]) :
                          ( \A el \in 1..Len(rec.elements) :
                                \/ idx \notin DOMAIN index2groups
                                \/ index2groups[idx][slot] # rec.elements[el].group )
                            => \A t \in Ticks(e) :
                                   e.states[t + 1][idx + 1][slot] = seeded[idx + 1][slot]

\* a timeline of three ticks or more with an element whose two switch times
\* are declared in descending order, both within the timeline
C16_Witness ==
    /\ pc = "parsed"
    /\ \E k \in 1..Len(transitions) :
          /\ Len(transitions[k].states) >= 3
          /\ \E el \in 1..Len(RecordOf(transitions[k]).elements) :
                LET sg == RecordOf(transitions[k]).elements[el]
                IN  /\ Len(sg.times) = 2
                    /\ sg.times[1].time > sg.times[2].time
                    /\ sg.times[1].time < Len(transitions[k].states)
                    /\ sgGet(sgIndex, sg.group) # <<>>

\* the link indices that no switching element of the record of entry e writes to
Unswitched(e) ==
    { idx \in 0..maxIndex :
        \A el \in 1..Len(RecordOf(e).elements) :
            idx \notin Elements(sgGet(sgIndex, RecordOf(e).elements[el].group)) }

\* C17: where the from-phase complex state of a link index reduces to a
\* letter, the seeded state of that index reduces under normalizeStates as
\* well and to the same letter: a tick that no switch event writes to shows
\* the reduced letter of the from-phase and passes the assertion.
C17_SeedingConsistent ==
    pc = "parsed" =>
        \A k \in 1..Len(transitions) :
            LET e == transitions[k]
            IN  \A idx \in Unswitched(e), t \in Ticks(e) :
                    LET ofPhase == normalizeIndex(phases[e.fromPhase][idx + 1], idx,
                                                  groupsAt(index2groups, idx), minorIndex, {})
                        ofTick == normalizeIndex(e.states[t + 1][idx + 1], idx,
                                                 groupsAt(index2groups, idx), minorIndex, {})
                    IN  ofPhase.exc = "none" => ofTick = ofPhase

----------------------------------------------------------------------------
(* Phase-list assembler on the parsed file *)

\* output positions (1-based) whose annotation carries this ID
Annotated(id) == { p \in 1..Len(comments) : comments[p][3] = id }

\* the tuples at the positions a..b of the output
Tuples(a, b) == [i \in 1..(b - a + 1) |-> phaseProperties[a + i - 1]]

\* the per-tick states that a list of (duration, state, ..) tuples stands for
RECURSIVE Unrolled(_)
Unrolled(tuples) ==
    IF tuples = <<>> THEN <<>>
    ELSE Repeat(Head(tuples)[2], Head(tuples)[1]) \o Unrolled(Tail(tuples))

StatedTicks(e) == IF RecordOf(e).duration > 1 THEN RecordOf(e).duration ELSE 1

\* C18: generateSumoPhases emits every phase of the cycle exactly once, in
\* cycle order, and every compiled transition exactly once, as one block of
\* tuples that stands for its ticks; the durations of the block sum to
\* max(1, declared duration); nothing else is emitted, and the annotation
\* list has one entry per tuple, numbered with the tuple's output position.
C18_EmittedOnce ==
    pc = "generated" =>
        /\ Len(comments) = Len(phaseProperties)
        /\ \A p \in 1..Len(comments) : comments[p][2] = p - 1
        /\ \A k \in 1..Len(cycle) :
              /\ Cardinality(Annotated(cycle[k])) = 1
              /\ \A p \in Annotated(cycle[k]) :
                    /\ phaseProperties[p][2] = phases[cycle[k]]
                    /\ p = sumoIndex[cycle[k]] + 1
              /\ \A l \in 1..(k - 1) :
                    \A p \in Annotated(cycle[l]), q \in Annotated(cycle[k]) : p < q
        /\ \A j \in 1..Len(transitions) :
              LET e == transitions[j]
                  block == Annotated(e.id)
              IN  /\ block # {}
                  /\ block = Min(block)..Max(block)
                  /\ Unrolled(Tuples(Min(block), Max(block)))
                        = [t \in 1..Len(e.states) |-> Join(e.states[t])]
                  /\ SumDur(Tuples(Min(block), Max(block))) = StatedTicks(e)
        /\ \A p \in 1..Len(comments) :
              \/ \E k \in 1..Len(cycle) : comments[p][3] = cycle[k]
              \/ \E j \in 1..Len(transitions) : comments[p][3] = transitions[j].id

\* two compiled transitions, one declared with duration 0 and emitted as one
\* tuple of duration 1, the other emitted as two tuples or more of which one
\* lasts longer than a tick
C18_Witness ==
    /\ pc = "generated"
    /\ Len(transitions) >= 2
    /\ \E j \in 1..Len(transitions) :
          /\ RecordOf(transitions[j]).duration = 0
          /\ Cardinality(Annotated(transitions[j].id)) = 1
    /\ \E j \in 1..Len(transitions) :
          /\ Cardinality(Annotated(transitions[j].id)) >= 2
          /\ \E p \in Annotated(transitions[j].id) : phaseProperties[p][1] >= 2

====
